---------------------------- MODULE Spec2Model ----------------------------
(* State-machine model of the Driveboard firmware protocol engine          *)
(* (src/firmware/src/protocol.c): the main loop, the command dispatcher,   *)
(* the parameter setter, the numeric decoder and the idle handler, plus    *)
(* the stepper/planner/serial collaborators they call.                     *)
(*                                                                         *)
(* Every "double" of the firmware is a fixed-point number with 3 decimals; *)
(* the model stores it as an integer number of thousandths.                *)
(* C arrays indexed 0..n-1 are sequences indexed 1..n.                     *)
EXTENDS Integers, Sequences, FiniteSets, TLC

VARIABLES
  st,                            \* static state_t st
  pdata,                         \* static data_t pdata
  status_requested,              \* static volatile bool
  superstatus_requested,         \* static volatile bool
  rx_buffer_underruns,           \* static volatile uint16_t
  rx_buffer_underruns_reported,  \* static volatile bool
  chr,                           \* local of protocol_loop: the byte last read
  val,                           \* local of on_param: value decoded before the drain wait
  pc,                            \* position of the main thread
  stop_requested,                \* stepper: stepper_stop_requested()
  stop_status,                   \* stepper: stepper_stop_status()
  position,                      \* stepper: stepper_get_position_x/y/z()
  blocks,                        \* planner: the block buffer (pending motions)
  planner_position,              \* planner: position tracked by planner_set_position
  out,                           \* collaborator calls and serial writes of the last step, in order
  handled,                       \* how the last byte read was handled by protocol_loop
  resync_due,                    \* history: a stop was raised and no stop recovery ran since
  nread,                         \* number of bytes read so far
  frames,                        \* protocol_idle() calls inside their report, innermost last
  emitted                        \* history: the underrun count last written to the serial line

vars == <<st, pdata, status_requested, superstatus_requested, rx_buffer_underruns,
          rx_buffer_underruns_reported, chr, val, pc, stop_requested, stop_status,
          position, blocks, planner_position, out, handled, resync_due, nread, frames,
          emitted>>

-----------------------------------------------------------------------------
(* Bounds of the model *)

MaxBytes == 2
MaxQueue == 2
MaxUnderruns == 2

(* Program constants *)

REF_RELATIVE == 0
REF_ABSOLUTE == 1
PARAM_MAX_DATA_LENGTH == 4

X_AXIS == 1
Y_AXIS == 2
Z_AXIS == 3
Axes == {X_AXIS, Y_AXIS, Z_AXIS}

CONFIG_X_ORIGIN_OFFSET == 10000
CONFIG_Y_ORIGIN_OFFSET == 0
CONFIG_Z_ORIGIN_OFFSET == 0
CONFIG_FEEDRATE == 8000000
VERSION == 1500
origin_offset == <<CONFIG_X_ORIGIN_OFFSET, CONFIG_Y_ORIGIN_OFFSET, CONFIG_Z_ORIGIN_OFFSET>>

CMD_NONE == 65
CMD_LINE == 66
CMD_DWELL == 67
CMD_RASTER == 68
CMD_REF_RELATIVE == 69
CMD_REF_ABSOLUTE == 70
CMD_REF_STORE == 71
CMD_REF_RESTORE == 72
CMD_HOMING == 73
CMD_OFFSET_STORE == 74
CMD_OFFSET_RESTORE == 75
CMD_AIR_ENABLE == 76
CMD_AIR_DISABLE == 77
CMD_AUX_ENABLE == 78
CMD_AUX_DISABLE == 79

PARAM_TARGET_X == 120
PARAM_TARGET_Y == 121
PARAM_TARGET_Z == 122
PARAM_FEEDRATE == 102
PARAM_INTENSITY == 115
PARAM_DURATION == 100
PARAM_PIXEL_WIDTH == 112
PARAM_OFFSET_X == 104
PARAM_OFFSET_Y == 105
PARAM_OFFSET_Z == 106

Commands == {CMD_NONE, CMD_LINE, CMD_DWELL, CMD_RASTER, CMD_REF_RELATIVE,
             CMD_REF_ABSOLUTE, CMD_REF_STORE, CMD_REF_RESTORE, CMD_HOMING,
             CMD_OFFSET_STORE, CMD_OFFSET_RESTORE, CMD_AIR_ENABLE, CMD_AIR_DISABLE,
             CMD_AUX_ENABLE, CMD_AUX_DISABLE}
TargetParams == {PARAM_TARGET_X, PARAM_TARGET_Y, PARAM_TARGET_Z}
OffsetParams == {PARAM_OFFSET_X, PARAM_OFFSET_Y, PARAM_OFFSET_Z}
Parameters == TargetParams \cup OffsetParams \cup
              {PARAM_FEEDRATE, PARAM_INTENSITY, PARAM_DURATION, PARAM_PIXEL_WIDTH}

AxisOf(parameter) ==
  CASE parameter \in {PARAM_TARGET_X, PARAM_OFFSET_X} -> X_AXIS
    [] parameter \in {PARAM_TARGET_Y, PARAM_OFFSET_Y} -> Y_AXIS
    [] OTHER -> Z_AXIS


-----------------------------------------------------------------------------
(* The machine: the protocol's statics and the collaborators' state that the *)
(* handlers read and write, packed in one record so that each C function is  *)
(* one operator from machine to machine.                                      *)

Machine ==
  [st |-> st, pdata |-> pdata,
   status_requested |-> status_requested,
   superstatus_requested |-> superstatus_requested,
   rx_buffer_underruns |-> rx_buffer_underruns,
   rx_buffer_underruns_reported |-> rx_buffer_underruns_reported,
   stop_requested |-> stop_requested, stop_status |-> stop_status,
   position |-> position, blocks |-> blocks,
   planner_position |-> planner_position, out |-> <<>>, handled |-> "none"]

(* A step of the main thread that leaves the machine m and the            *)
(* protocol_idle() calls f inside their report. emitted follows the last   *)
(* INFO_BUFFER_UNDERRUN of the step's log, if it has one.                  *)
StoreFrames(m, f) ==
  /\ st' = m.st
  /\ pdata' = m.pdata
  /\ status_requested' = m.status_requested
  /\ superstatus_requested' = m.superstatus_requested
  /\ rx_buffer_underruns' = m.rx_buffer_underruns
  /\ rx_buffer_underruns_reported' = m.rx_buffer_underruns_reported
  /\ stop_requested' = m.stop_requested
  /\ stop_status' = m.stop_status
  /\ position' = m.position
  /\ blocks' = m.blocks
  /\ planner_position' = m.planner_position
  /\ out' = m.out
  /\ handled' = m.handled
  /\ frames' = f
  /\ emitted' = IF \E i \in 1 .. Len(m.out) : m.out[i].op = "serial_write_param"
                                                /\ m.out[i].arg = "INFO_BUFFER_UNDERRUN"
                THEN m.rx_buffer_underruns
                ELSE emitted

Store(m) == StoreFrames(m, frames)

(* One entry of the log of collaborator calls and serial writes. *)
Ev(op, arg, v) == [op |-> op, arg |-> arg, v |-> v]

Log(m, e) == [m EXCEPT !.out = Append(@, e)]

-----------------------------------------------------------------------------
(* Collaborators: stepper, planner, serial, sense/control *)

stepper_request_stop(m, status) ==
  IF m.stop_requested THEN m
  ELSE [m EXCEPT !.stop_requested = TRUE, !.stop_status = status]

stepper_processing(m) == Len(m.blocks) > 0

planner_line(m, x, y, z, feed_rate, intensity, pixel_width) ==
  Log([m EXCEPT !.blocks = Append(@, [type |-> "line",
                                      v |-> <<x, y, z, feed_rate, intensity, pixel_width>>]),
                !.planner_position = <<x, y, z>>],
      Ev("planner_line", "", <<x, y, z, feed_rate, intensity, pixel_width>>))

planner_dwell(m, duration, intensity) ==
  Log([m EXCEPT !.blocks = Append(@, [type |-> "dwell", v |-> <<duration, intensity>>])],
      Ev("planner_dwell", "", <<duration, intensity>>))

planner_control(m, what) == Log(m, Ev(what, "", <<>>))

stepper_homing_cycle(m) ==
  Log([m EXCEPT !.position = <<0, 0, 0>>, !.planner_position = <<0, 0, 0>>],
      Ev("stepper_homing_cycle", "", <<>>))

planner_reset_block_buffer(m) ==
  Log([m EXCEPT !.blocks = <<>>], Ev("planner_reset_block_buffer", "", <<>>))

planner_set_position(m, x, y, z) ==
  Log([m EXCEPT !.planner_position = <<x, y, z>>], Ev("planner_set_position", "", <<x, y, z>>))

control_laser_intensity(m, intensity) == Log(m, Ev("control_laser_intensity", "", <<intensity>>))

(* The serial writes and the sleep of the status report, as log entries. *)
serial_write(marker) == Ev("serial_write", marker, <<>>)

serial_write_param(marker, value) == Ev("serial_write_param", marker, <<value>>)

sleep_mode == Ev("sleep_mode", "", <<>>)

-----------------------------------------------------------------------------
(* get_curent_value: the number encoded by the 4 buffered data bytes,      *)
(* in thousandths (the C code divides by 1000.0).                          *)

(* Mutant: the highest byte is weighted 128*128*127. *)
get_curent_value_low_weight(m) ==
  ((m.pdata.chars[4] - 128) * 2080768 +
   (m.pdata.chars[3] - 128) * 16384 +
   (m.pdata.chars[2] - 128) * 128 +
   (m.pdata.chars[1] - 128)) - 134217728

(* Mutant: the second byte is weighted 127. *)
get_curent_value_second_weight(m) ==
  ((m.pdata.chars[4] - 128) * 2097152 +
   (m.pdata.chars[3] - 128) * 16384 +
   (m.pdata.chars[2] - 128) * 127 +
   (m.pdata.chars[1] - 128)) - 134217728

get_curent_value(m) ==
  ((m.pdata.chars[4] - 128) * 2097152 +
   (m.pdata.chars[3] - 128) * 16384 +
   (m.pdata.chars[2] - 128) * 128 +
   (m.pdata.chars[1] - 128)) - 134217728

(* Conversion of a double (in thousandths) to uint8_t: truncation toward    *)
(* zero when the truncated value fits in 0..255; otherwise the conversion   *)
(* is undefined in C and ub picks among the outcomes a build produces.      *)
Trunc(v) == IF v >= 0 THEN v \div 1000 ELSE -((-v) \div 1000)

UbChoices == {"wrap", "zero", "max"}

uint8_of_double(v, ub) ==
  IF Trunc(v) >= 0 /\ Trunc(v) <= 255 THEN Trunc(v)
  ELSE CASE ub = "wrap" -> Trunc(v) % 256
         [] ub = "zero" -> 0
         [] OTHER -> 255

clear_vector == <<0, 0, 0>>

-----------------------------------------------------------------------------
(* on_cmd: the command dispatcher *)

(* Mutant: LINE submits the stored pixel width. *)
cmd_line_with_pixel_width(m) ==
  planner_line(m, m.st.target[X_AXIS], m.st.target[Y_AXIS], m.st.target[Z_AXIS],
               m.st.feedrate, m.st.intensity, m.st.pixel_width)

cmd_line(m) ==
  planner_line(m, m.st.target[X_AXIS], m.st.target[Y_AXIS], m.st.target[Z_AXIS],
               m.st.feedrate, m.st.intensity, 0)

cmd_raster(m) ==
  planner_line(m, m.st.target[X_AXIS], m.st.target[Y_AXIS], m.st.target[Z_AXIS],
               m.st.feedrate, m.st.intensity, m.st.pixel_width)

cmd_dwell(m) == planner_dwell(m, m.st.duration, m.st.intensity)

(* Mutant: the move to the origin is submitted with the stored intensity. *)
cmd_homing_with_intensity(m) ==
  LET m1 == stepper_homing_cycle(m)
      m2 == [m1 EXCEPT !.st.offset = clear_vector]
      m3 == [m2 EXCEPT !.st.target = <<CONFIG_X_ORIGIN_OFFSET,
                                       CONFIG_Y_ORIGIN_OFFSET,
                                       CONFIG_Z_ORIGIN_OFFSET>>]
  IN planner_line(m3, m3.st.target[X_AXIS], m3.st.target[Y_AXIS], m3.st.target[Z_AXIS],
                  m3.st.feedrate, m3.st.intensity, 0)

cmd_homing(m) ==
  LET m1 == stepper_homing_cycle(m)
      m2 == [m1 EXCEPT !.st.offset = clear_vector]
      m3 == [m2 EXCEPT !.st.target = <<CONFIG_X_ORIGIN_OFFSET,
                                       CONFIG_Y_ORIGIN_OFFSET,
                                       CONFIG_Z_ORIGIN_OFFSET>>]
  IN planner_line(m3, m3.st.target[X_AXIS], m3.st.target[Y_AXIS], m3.st.target[Z_AXIS],
                  m3.st.feedrate, 0, 0)

cmd_offset_store(m) ==
  [m EXCEPT !.st.offset_store = <<m.st.offset[X_AXIS], m.st.offset[Y_AXIS],
                                  m.st.offset[Z_AXIS]>>]

(* Mutant: the restore brings back the X axis alone. *)
cmd_offset_restore_x_only(m) ==
  [m EXCEPT !.st.offset[X_AXIS] = m.st.offset_store[X_AXIS]]

cmd_offset_restore(m) ==
  [m EXCEPT !.st.offset = <<m.st.offset_store[X_AXIS], m.st.offset_store[Y_AXIS],
                            m.st.offset_store[Z_AXIS]>>]

cmd_ref_store(m) == [m EXCEPT !.st.ref_mode_store = m.st.ref_mode]

(* Mutant: the restore goes back to the mode set at construction. *)
cmd_ref_restore_default(m) == [m EXCEPT !.st.ref_mode = REF_ABSOLUTE]

cmd_ref_restore(m) == [m EXCEPT !.st.ref_mode = m.st.ref_mode_store]

(* Mutant: a command without a case is skipped. *)
cmd_default_skipped(m) == m

(* default: of the switch of on_cmd *)
cmd_default(m) == stepper_request_stop(m, "STOPERROR_INVALID_COMMAND")

on_cmd(m, command) ==
  CASE command = CMD_NONE -> m
    [] command = CMD_LINE -> cmd_line(m)
    [] command = CMD_RASTER -> cmd_raster(m)
    [] command = CMD_DWELL -> cmd_dwell(m)
    [] command = CMD_REF_RELATIVE -> [m EXCEPT !.st.ref_mode = REF_RELATIVE]
    [] command = CMD_REF_ABSOLUTE -> [m EXCEPT !.st.ref_mode = REF_ABSOLUTE]
    [] command = CMD_REF_STORE -> cmd_ref_store(m)
    [] command = CMD_REF_RESTORE -> cmd_ref_restore(m)
    [] command = CMD_HOMING -> cmd_homing(m)
    [] command = CMD_OFFSET_STORE -> cmd_offset_store(m)
    [] command = CMD_OFFSET_RESTORE -> cmd_offset_restore(m)
    [] command = CMD_AIR_ENABLE -> planner_control(m, "planner_control_air_assist_enable")
    [] command = CMD_AIR_DISABLE -> planner_control(m, "planner_control_air_assist_disable")
    [] command = CMD_AUX_ENABLE -> planner_control(m, "planner_control_aux_assist_enable")
    [] command = CMD_AUX_DISABLE -> planner_control(m, "planner_control_aux_assist_disable")
    [] OTHER -> cmd_default(m)

(* Commands whose planner call waits for a free slot of the block buffer,  *)
(* and the homing cycle, which waits for the pending motions to finish.    *)
cmd_can_proceed(m, command) ==
  /\ command \in {CMD_LINE, CMD_RASTER, CMD_DWELL} => Len(m.blocks) < MaxQueue
  /\ command = CMD_HOMING => m.blocks = <<>>

-----------------------------------------------------------------------------
(* on_param: the parameter setter *)

(* The setter reaches the queue-drain wait of a relative offset. *)
param_waits(m, parameter) ==
  /\ m.pdata.count = PARAM_MAX_DATA_LENGTH
  /\ parameter \in OffsetParams
  /\ m.st.ref_mode # REF_ABSOLUTE

(* Mutant: the absolute target forgets the custom offset. *)
param_target_no_offset(m, axis) ==
  IF m.st.ref_mode = REF_ABSOLUTE
  THEN [m EXCEPT !.st.target[axis] = get_curent_value(m) + origin_offset[axis]]
  ELSE [m EXCEPT !.st.target[axis] = @ + get_curent_value(m)]

(* case PARAM_TARGET_X / _Y / _Z *)
param_target(m, axis) ==
  IF m.st.ref_mode = REF_ABSOLUTE
  THEN [m EXCEPT !.st.target[axis] =
          get_curent_value(m) + origin_offset[axis] + m.st.offset[axis]]
  ELSE [m EXCEPT !.st.target[axis] = @ + get_curent_value(m)]

(* case PARAM_OFFSET_X / _Y / _Z with st.ref_mode == REF_ABSOLUTE *)
param_offset_absolute(m, axis) ==
  [m EXCEPT !.st.offset[axis] = get_curent_value(m)]

(* Mutant: a parameter without a case is reported as bad data. *)
param_default_invalid_data(m) == stepper_request_stop(m, "STOPERROR_INVALID_DATA")

(* default: of the switch of on_param *)
param_default(m) == stepper_request_stop(m, "STOPERROR_INVALID_PARAMETER")

(* The switch of on_param on every path but the relative offset. *)
param_switch(m, parameter, ub) ==
  CASE parameter \in TargetParams -> param_target(m, AxisOf(parameter))
    [] parameter = PARAM_FEEDRATE -> [m EXCEPT !.st.feedrate = get_curent_value(m)]
    [] parameter = PARAM_INTENSITY ->
         [m EXCEPT !.st.intensity = uint8_of_double(get_curent_value(m), ub)]
    [] parameter = PARAM_DURATION -> [m EXCEPT !.st.duration = get_curent_value(m)]
    [] parameter = PARAM_PIXEL_WIDTH -> [m EXCEPT !.st.pixel_width = get_curent_value(m)]
    [] parameter \in OffsetParams -> param_offset_absolute(m, AxisOf(parameter))
    [] OTHER -> param_default(m)

(* Mutant: the setter runs whatever the buffer count is. *)
on_param_unchecked(m, parameter, ub) == param_switch(m, parameter, ub)

(* Mutant: a wrong buffer count is reported as an invalid parameter. *)
on_param_count_invalid_parameter(m, parameter, ub) ==
  IF m.pdata.count = PARAM_MAX_DATA_LENGTH
  THEN param_switch(m, parameter, ub)
  ELSE stepper_request_stop(m, "STOPERROR_INVALID_PARAMETER")

on_param(m, parameter, ub) ==
  IF m.pdata.count = PARAM_MAX_DATA_LENGTH
  THEN param_switch(m, parameter, ub)
  ELSE stepper_request_stop(m, "STOPERROR_INVALID_DATA")

(* Mutant: the relative offset is anchored to the pending target. *)
on_param_resume_from_target(m, parameter, v) ==
  [m EXCEPT !.st.offset[AxisOf(parameter)] =
     m.st.target[AxisOf(parameter)] - origin_offset[AxisOf(parameter)] + v]

(* Variant: the relative offset is not written once a stop is requested. *)
on_param_resume_unless_stopped(m, parameter, v) ==
  IF m.stop_requested THEN m
  ELSE [m EXCEPT !.st.offset[AxisOf(parameter)] =
          m.position[AxisOf(parameter)] - origin_offset[AxisOf(parameter)] + v]


(* The relative offset once the drain wait is over; v is the local val. *)
on_param_resume(m, parameter, v) ==
  [m EXCEPT !.st.offset[AxisOf(parameter)] =
     m.position[AxisOf(parameter)] - origin_offset[AxisOf(parameter)] + v]

-----------------------------------------------------------------------------
(* protocol_idle: interlock, stop recovery, status report.                 *)
(* sense holds what the sensors and the serial layer answer during the     *)
(* call: door, chiller (SENSE_DOOR_OPEN, SENSE_CHILLER_OFF), limits (the   *)
(* set of limit switches sensed), avail (serial_data_available()) and      *)
(* stack (stack_clearance()).                                              *)

ENABLE_INTERLOCKS == TRUE
ENABLE_3AXES == TRUE

idle_interlock(m, sense) ==
  IF ENABLE_INTERLOCKS /\ (sense.door \/ sense.chiller)
  THEN control_laser_intensity(m, 0)
  ELSE m

(* Mutant: the recovery leaves the pending target as it was. *)
idle_stop_recovery_keeps_target(m) ==
  IF m.stop_requested THEN
    LET m1 == planner_reset_block_buffer(m)
        m2 == planner_set_position(m1, m1.position[X_AXIS], m1.position[Y_AXIS],
                                   m1.position[Z_AXIS])
    IN [m2 EXCEPT !.pdata.count = 0]
  ELSE m

(* Mutant: the recovery leaves the block buffer as it was. *)
idle_stop_recovery_keeps_queue(m) ==
  IF m.stop_requested THEN
    LET m2 == planner_set_position(m, m.position[X_AXIS], m.position[Y_AXIS],
                                   m.position[Z_AXIS])
    IN [m2 EXCEPT !.st.target = <<m2.position[X_AXIS], m2.position[Y_AXIS],
                                  m2.position[Z_AXIS]>>,
                  !.pdata.count = 0]
  ELSE m

(* Mutant: the recovery also goes back to the absolute reference mode. *)
idle_stop_recovery_resets_ref_mode(m) ==
  IF m.stop_requested THEN
    LET m1 == planner_reset_block_buffer(m)
        m2 == planner_set_position(m1, m1.position[X_AXIS], m1.position[Y_AXIS],
                                   m1.position[Z_AXIS])
    IN [m2 EXCEPT !.st.target = <<m2.position[X_AXIS], m2.position[Y_AXIS],
                                  m2.position[Z_AXIS]>>,
                  !.st.ref_mode = REF_ABSOLUTE,
                  !.pdata.count = 0]
  ELSE m

(* Mutant: the target is synchronised with the planner's position as it   *)
(* was before the recovery set it.                                         *)
idle_stop_recovery_target_from_planner(m) ==
  IF m.stop_requested THEN
    LET m1 == planner_reset_block_buffer(m)
        m2 == planner_set_position(m1, m1.position[X_AXIS], m1.position[Y_AXIS],
                                   m1.position[Z_AXIS])
    IN [m2 EXCEPT !.st.target = m.planner_position,
                  !.pdata.count = 0]
  ELSE m

idle_stop_recovery(m) ==
  IF m.stop_requested THEN
    LET m1 == planner_reset_block_buffer(m)
        m2 == planner_set_position(m1, m1.position[X_AXIS], m1.position[Y_AXIS],
                                   m1.position[Z_AXIS])
    IN [m2 EXCEPT !.st.target = <<m2.position[X_AXIS], m2.position[Y_AXIS],
                                  m2.position[Z_AXIS]>>,
                  !.pdata.count = 0]
  ELSE m

(* protocol_idle as one step: the status report writes nothing that it    *)
(* reads later, so each part is the sequence of its writes, computed from  *)
(* the machine at the start of the report.                                 *)
(* Mutant: the idle flag is written whether or not a stop is requested. *)
report_idle_despite_stop(m, sense) ==
  IF ~(Len(m.blocks) > 0) /\ ~sense.avail
  THEN <<serial_write("INFO_IDLE_YES"), sleep_mode>> ELSE <<>>

report_idle(m, sense) ==
  IF (~(Len(m.blocks) > 0) /\ ~sense.avail) /\ ~m.stop_requested
  THEN <<serial_write("INFO_IDLE_YES"), sleep_mode>> ELSE <<>>

report_interlocks(sense) ==
  (IF sense.door THEN <<serial_write("INFO_DOOR_OPEN")>> ELSE <<>>)
    \o (IF sense.chiller THEN <<serial_write("INFO_CHILLER_OFF")>> ELSE <<>>)

report_stop(stop_code) ==
  IF stop_code # "STOPERROR_OK" THEN <<serial_write(stop_code)>> ELSE <<>>

(* Mutant: a sensed limit is reported whatever the stop code is. *)
report_limit_despite_stop_code(sense, limit, stop_code) ==
  IF limit \in sense.limits THEN <<serial_write(limit)>> ELSE <<>>

report_limit(sense, limit, stop_code) ==
  IF limit \in sense.limits /\ stop_code # limit THEN <<serial_write(limit)>> ELSE <<>>

report_limits(sense, stop_code) ==
  IF ENABLE_INTERLOCKS THEN
    report_limit(sense, "STOPERROR_LIMIT_HIT_X1", stop_code)
      \o report_limit(sense, "STOPERROR_LIMIT_HIT_X2", stop_code)
      \o report_limit(sense, "STOPERROR_LIMIT_HIT_Y1", stop_code)
      \o report_limit(sense, "STOPERROR_LIMIT_HIT_Y2", stop_code)
      \o (IF ENABLE_3AXES
          THEN report_limit(sense, "STOPERROR_LIMIT_HIT_Z1", stop_code)
                 \o report_limit(sense, "STOPERROR_LIMIT_HIT_Z2", stop_code)
          ELSE <<>>)
  ELSE <<>>

(* Mutant: the raw machine coordinate minus the origin offset is reported. *)
report_position_no_offset(m) ==
  <<serial_write_param("INFO_POS_X", m.position[X_AXIS] - CONFIG_X_ORIGIN_OFFSET),
    serial_write_param("INFO_POS_Y", m.position[Y_AXIS] - CONFIG_Y_ORIGIN_OFFSET),
    serial_write_param("INFO_POS_Z", m.position[Z_AXIS] - CONFIG_Z_ORIGIN_OFFSET)>>

report_position(m) ==
  <<serial_write_param("INFO_POS_X",
      m.position[X_AXIS] - CONFIG_X_ORIGIN_OFFSET - m.st.offset[X_AXIS]),
    serial_write_param("INFO_POS_Y",
      m.position[Y_AXIS] - CONFIG_Y_ORIGIN_OFFSET - m.st.offset[Y_AXIS]),
    serial_write_param("INFO_POS_Z",
      m.position[Z_AXIS] - CONFIG_Z_ORIGIN_OFFSET - m.st.offset[Z_AXIS])>>

(* Mutant: the underrun count is written in every telegram. *)
report_underruns_always(m) ==
  <<serial_write_param("INFO_BUFFER_UNDERRUN", m.rx_buffer_underruns)>>

report_underruns(m) ==
  IF ~m.rx_buffer_underruns_reported
  THEN <<serial_write_param("INFO_BUFFER_UNDERRUN", m.rx_buffer_underruns)>> ELSE <<>>

report_superstatus(m) ==
  IF m.superstatus_requested THEN
    <<serial_write_param("INFO_VERSION", VERSION),
      serial_write_param("INFO_OFFSET_X", m.st.offset[X_AXIS]),
      serial_write_param("INFO_OFFSET_Y", m.st.offset[Y_AXIS]),
      serial_write_param("INFO_OFFSET_Z", m.st.offset[Z_AXIS]),
      serial_write_param("INFO_FEEDRATE", m.st.feedrate),
      serial_write_param("INFO_INTENSITY", m.st.intensity),
      serial_write_param("INFO_DURATION", m.st.duration),
      serial_write_param("INFO_PIXEL_WIDTH", m.st.pixel_width)>>
  ELSE <<>>

(* Mutant: the report leaves the superstatus request pending. *)
idle_report_keeps_superstatus(m, sense) ==
  IF m.status_requested \/ m.superstatus_requested THEN
    [m EXCEPT !.status_requested = FALSE,
              !.rx_buffer_underruns_reported = TRUE,
              !.out = @ \o report_idle(m, sense)
                        \o report_interlocks(sense)
                        \o report_stop(m.stop_status)
                        \o report_limits(sense, m.stop_status)
                        \o report_position(m)
                        \o report_underruns(m)
                        \o <<serial_write_param("INFO_STACK_CLEARANCE", sense.stack)>>
                        \o report_superstatus(m)
                        \o <<serial_write("STATUS_END")>>]
  ELSE m

(* Mutant: STATUS_END is written before the superstatus block. *)
idle_report_end_before_superstatus(m, sense) ==
  IF m.status_requested \/ m.superstatus_requested THEN
    [m EXCEPT !.status_requested = FALSE,
              !.rx_buffer_underruns_reported = TRUE,
              !.superstatus_requested = FALSE,
              !.out = @ \o report_idle(m, sense)
                        \o report_interlocks(sense)
                        \o report_stop(m.stop_status)
                        \o report_limits(sense, m.stop_status)
                        \o report_position(m)
                        \o report_underruns(m)
                        \o <<serial_write_param("INFO_STACK_CLEARANCE", sense.stack)>>
                        \o <<serial_write("STATUS_END")>>
                        \o report_superstatus(m)]
  ELSE m

(* Mutant: the report ends the stop once it has written its code. *)
idle_report_clears_stop(m, sense) ==
  IF m.status_requested \/ m.superstatus_requested THEN
    [m EXCEPT !.status_requested = FALSE,
              !.rx_buffer_underruns_reported = TRUE,
              !.superstatus_requested = FALSE,
              !.stop_requested = FALSE,
              !.stop_status = "STOPERROR_OK",
              !.out = @ \o report_idle(m, sense)
                        \o report_interlocks(sense)
                        \o report_stop(m.stop_status)
                        \o report_limits(sense, m.stop_status)
                        \o report_position(m)
                        \o report_underruns(m)
                        \o <<serial_write_param("INFO_STACK_CLEARANCE", sense.stack)>>
                        \o report_superstatus(m)
                        \o <<serial_write("STATUS_END")>>]
  ELSE m

idle_report(m, sense) ==
  IF m.status_requested \/ m.superstatus_requested THEN
    [m EXCEPT !.status_requested = FALSE,
              !.rx_buffer_underruns_reported = TRUE,
              !.superstatus_requested = FALSE,
              !.out = @ \o report_idle(m, sense)
                        \o report_interlocks(sense)
                        \o report_stop(m.stop_status)
                        \o report_limits(sense, m.stop_status)
                        \o report_position(m)
                        \o report_underruns(m)
                        \o <<serial_write_param("INFO_STACK_CLEARANCE", sense.stack)>>
                        \o report_superstatus(m)
                        \o <<serial_write("STATUS_END")>>]
  ELSE m

(* Mutant: the interlock is looked at after the recovery and the report. *)
protocol_idle_interlock_last(m, sense) ==
  idle_interlock(idle_report(idle_stop_recovery(m), sense), sense)

protocol_idle(m, sense) ==
  idle_report(idle_stop_recovery(idle_interlock(m, sense)), sense)

-----------------------------------------------------------------------------
(* Variant: the report takes the status request as served when it ends. *)
report_end_clears_status(m) ==
  [m EXCEPT !.status_requested = FALSE,
            !.out = @ \o <<serial_write("STATUS_END")>>]

(* protocol_idle statement by statement: line 448, the last of the report. *)
report_end(m) == [m EXCEPT !.out = @ \o <<serial_write("STATUS_END")>>]

-----------------------------------------------------------------------------
(* protocol_loop: one iteration up to, and without, its protocol_idle()    *)
(* call; c is the byte serial_protocol_read() returned. handled records    *)
(* the branch taken.                                                       *)

(* Mutant: the command range starts one value too low ('@'). *)
loop_marker_low(m, c, ub) ==
  LET m1 == IF c >= 64 /\ c < 91 THEN [on_cmd(m, c) EXCEPT !.handled = "cmd"]
            ELSE IF c > 96 /\ c < 123 THEN [on_param(m, c, ub) EXCEPT !.handled = "param"]
            ELSE [stepper_request_stop(m, "STOPERROR_INVALID_MARKER")
                    EXCEPT !.handled = "invalid_marker"]
  IN [m1 EXCEPT !.pdata.count = 0]

(* Mutant: the buffer is reset after a valid marker only. *)
loop_marker_keeps_count_on_error(m, c, ub) ==
  IF c > 64 /\ c < 91 THEN [on_cmd(m, c) EXCEPT !.handled = "cmd", !.pdata.count = 0]
  ELSE IF c > 96 /\ c < 123
  THEN [on_param(m, c, ub) EXCEPT !.handled = "param", !.pdata.count = 0]
  ELSE [stepper_request_stop(m, "STOPERROR_INVALID_MARKER")
          EXCEPT !.handled = "invalid_marker"]

loop_marker(m, c, ub) ==
  LET m1 == IF c > 64 /\ c < 91 THEN [on_cmd(m, c) EXCEPT !.handled = "cmd"]
            ELSE IF c > 96 /\ c < 123 THEN [on_param(m, c, ub) EXCEPT !.handled = "param"]
            ELSE [stepper_request_stop(m, "STOPERROR_INVALID_MARKER")
                    EXCEPT !.handled = "invalid_marker"]
  IN [m1 EXCEPT !.pdata.count = 0]

(* Mutant: the buffer bound is off by one. *)
loop_data_off_by_one(m, c) ==
  IF m.pdata.count <= PARAM_MAX_DATA_LENGTH
  THEN [m EXCEPT !.pdata.chars[m.pdata.count + 1] = c,
                 !.pdata.count = @ + 1,
                 !.handled = "data"]
  ELSE [stepper_request_stop(m, "STOPERROR_INVALID_DATA") EXCEPT !.handled = "overflow"]

(* Mutant: the count also grows when the byte is refused. *)
loop_data_counts_refused(m, c) ==
  IF m.pdata.count < PARAM_MAX_DATA_LENGTH
  THEN [m EXCEPT !.pdata.chars[m.pdata.count + 1] = c,
                 !.pdata.count = @ + 1,
                 !.handled = "data"]
  ELSE [stepper_request_stop(m, "STOPERROR_INVALID_DATA") EXCEPT !.pdata.count = @ + 1,
                                                                 !.handled = "overflow"]

loop_data(m, c) ==
  IF m.pdata.count < PARAM_MAX_DATA_LENGTH
  THEN [m EXCEPT !.pdata.chars[m.pdata.count + 1] = c,
                 !.pdata.count = @ + 1,
                 !.handled = "data"]
  ELSE [stepper_request_stop(m, "STOPERROR_INVALID_DATA") EXCEPT !.handled = "overflow"]

loop_dispatch(m, c, ub) ==
  IF c < 128 THEN loop_marker(m, c, ub) ELSE loop_data(m, c)

(* Mutant: the stop flag is not looked at. *)
protocol_loop_no_stop_check(m, c, ub) == loop_dispatch(m, c, ub)

protocol_loop(m, c, ub) ==
  IF m.stop_requested THEN [m EXCEPT !.handled = "ignored"]
  ELSE loop_dispatch(m, c, ub)

(* The outcomes of the undefined conversion that handling byte c can meet. *)
UbFor(c) == IF c = PARAM_INTENSITY THEN UbChoices ELSE {"wrap"}

(* The byte is a parameter marker whose setter enters the drain wait. *)
loop_waits(m, c) ==
  /\ ~m.stop_requested
  /\ c > 96 /\ c < 123
  /\ param_waits(m, c)

(* The byte is a command whose collaborator call can go ahead. *)
loop_can_proceed(m, c) ==
  (~m.stop_requested /\ c > 64 /\ c < 91) => cmd_can_proceed(m, c)

-----------------------------------------------------------------------------
(* Inputs *)

DataBytes == {128, 192}
(* Markers that are no command and no parameter: the neighbours of the    *)
(* two marker ranges, the extremes, an undefined command ('Z') and an      *)
(* undefined parameter ('a').                                              *)
InvalidMarkers == {0, 64, 91, 96, 123, 127}
UnknownMarkers == {90, 97}
Bytes == Commands \cup Parameters \cup UnknownMarkers \cup InvalidMarkers \cup DataBytes

(* Every marker value, for the scan of the byte classification. *)
ScanBytes == (0 .. 127) \cup DataBytes

ExternalStops == {"STOPERROR_LIMIT_HIT_X1", "STOPERROR_SERIAL_STOP_REQUEST"}
SenseInputs ==
  { [door |-> FALSE, chiller |-> FALSE, limits |-> {}, avail |-> FALSE, stack |-> 100],
    [door |-> TRUE, chiller |-> FALSE, limits |-> {}, avail |-> TRUE, stack |-> 100],
    [door |-> FALSE, chiller |-> TRUE, limits |-> {"STOPERROR_LIMIT_HIT_X1"},
     avail |-> TRUE, stack |-> 100] }

-----------------------------------------------------------------------------
(* The state after construction: protocol_init(), the statics it leaves    *)
(* zero-initialised, stepper and planner initialised at the origin.        *)

(* Variant: the saved slot starts as the reference mode does. *)
protocol_init_store_absolute ==
  [st |-> [ref_mode |-> REF_ABSOLUTE,
           ref_mode_store |-> REF_ABSOLUTE,
           feedrate |-> CONFIG_FEEDRATE,
           intensity |-> 0,
           duration |-> 0,
           pixel_width |-> 0,
           target |-> <<CONFIG_X_ORIGIN_OFFSET, CONFIG_Y_ORIGIN_OFFSET, CONFIG_Z_ORIGIN_OFFSET>>,
           offset |-> clear_vector,
           offset_store |-> clear_vector],
   pdata |-> [chars |-> <<0, 0, 0, 0>>, count |-> 0],
   status_requested |-> TRUE,
   superstatus_requested |-> TRUE,
   rx_buffer_underruns |-> 0,
   rx_buffer_underruns_reported |-> TRUE,
   stop_requested |-> FALSE,
   stop_status |-> "STOPERROR_OK",
   position |-> origin_offset,
   blocks |-> <<>>,
   planner_position |-> origin_offset,
   out |-> <<>>,
   handled |-> "none"]


protocol_init ==
  [st |-> [ref_mode |-> REF_ABSOLUTE,
           ref_mode_store |-> 0,
           feedrate |-> CONFIG_FEEDRATE,
           intensity |-> 0,
           duration |-> 0,
           pixel_width |-> 0,
           target |-> <<CONFIG_X_ORIGIN_OFFSET, CONFIG_Y_ORIGIN_OFFSET, CONFIG_Z_ORIGIN_OFFSET>>,
           offset |-> clear_vector,
           offset_store |-> clear_vector],
   pdata |-> [chars |-> <<0, 0, 0, 0>>, count |-> 0],
   status_requested |-> TRUE,
   superstatus_requested |-> TRUE,
   rx_buffer_underruns |-> 0,
   rx_buffer_underruns_reported |-> TRUE,
   stop_requested |-> FALSE,
   stop_status |-> "STOPERROR_OK",
   position |-> origin_offset,
   blocks |-> <<>>,
   planner_position |-> origin_offset,
   out |-> <<>>,
   handled |-> "none"]

(* The executor finishes the oldest pending block. *)
execute_block(m) ==
  [m EXCEPT !.position = IF Head(m.blocks).type = "line"
                         THEN <<Head(m.blocks).v[1], Head(m.blocks).v[2], Head(m.blocks).v[3]>>
                         ELSE @,
            !.blocks = Tail(@)]

(* The host-side encoding of a number (in thousandths) as 4 data bytes,    *)
(* least-significant 7 bits first (chars4_from_double).                    *)
(* Mutant: the bytes are in the order the function returns them, highest   *)
(* first.                                                                  *)
chars4_from_double_high_first(num) ==
  LET n == num + 134217728
  IN <<((n \div 2097152) % 128) + 128,
       ((n \div 16384) % 128) + 128,
       ((n \div 128) % 128) + 128,
       (n % 128) + 128>>

chars4_from_double(num) ==
  LET n == num + 134217728
  IN <<(n % 128) + 128,
       ((n \div 128) % 128) + 128,
       ((n \div 16384) % 128) + 128,
       ((n \div 2097152) % 128) + 128>>

(* A session prefix is a sequence of bytes sent by the host, with EXEC     *)
(* marking a point where the executor finishes a block. Run is the         *)
(* protocol_loop iteration (byte, then protocol_idle) over such a prefix,  *)
(* with quiet sensors and no interrupt.                                    *)
EXEC == -1

QuietSense == [door |-> FALSE, chiller |-> FALSE, limits |-> {}, avail |-> TRUE, stack |-> 100]

(* One iteration of the loop on byte c with nothing sensed, or one step of  *)
(* the executor. Each intermediate machine is bound as a value.            *)
RunHandle(m0, c) ==
  IF c = EXEC THEN (IF m0.blocks # <<>> THEN execute_block(m0) ELSE m0)
  ELSE IF loop_waits(m0, c)
  THEN [on_param_resume(m0, c, get_curent_value(m0)) EXCEPT !.pdata.count = 0]
  ELSE protocol_loop(m0, c, "wrap")

RunStep(m, c) ==
  CHOOSE r \in { IF c = EXEC THEN m1 ELSE protocol_idle(m1, QuietSense) :
                   m1 \in { RunHandle(m0, c) : m0 \in {[m EXCEPT !.out = <<>>]} } } : TRUE

RECURSIVE RunFrom(_, _, _)
RunFrom(m, bytes, i) ==
  IF i > Len(bytes) THEN [m EXCEPT !.out = <<>>, !.handled = "none"]
  ELSE CHOOSE r \in { RunFrom(next, bytes, i + 1) : next \in {RunStep(m, bytes[i])} } : TRUE

Run(m, bytes) == RunFrom(m, bytes, 1)

Num(v, marker) == chars4_from_double(v) \o <<marker>>

Prologues ==
  { <<>>,
    \* a number buffered, nothing else
    chars4_from_double(5000),
    \* two data bytes buffered
    <<192, 128>>,
    \* offsets set, a number buffered
    Num(3000, PARAM_OFFSET_X) \o Num(5000, PARAM_OFFSET_Y) \o chars4_from_double(2000),
    \* relative mode, a number buffered
    <<CMD_REF_RELATIVE>> \o chars4_from_double(-1500),
    \* relative mode, the pending target moved off the position, a number buffered
    <<CMD_REF_RELATIVE>> \o Num(-1500, PARAM_TARGET_X) \o chars4_from_double(250),
    \* a line pending, relative mode, a number buffered
    Num(2000, PARAM_TARGET_X) \o Num(5000, PARAM_TARGET_Y) \o <<CMD_LINE, CMD_REF_RELATIVE>>
      \o chars4_from_double(250),
    \* a line executed, offset set and stored, a dwell pending
    Num(2000, PARAM_TARGET_X) \o Num(5000, PARAM_TARGET_Y) \o <<CMD_LINE, EXEC>>
      \o Num(5000, PARAM_OFFSET_Y) \o <<CMD_OFFSET_STORE>> \o Num(40000, PARAM_INTENSITY)
      \o Num(7000, PARAM_PIXEL_WIDTH) \o Num(300, PARAM_DURATION) \o <<CMD_DWELL>>,
    \* the reference mode stored twice, relative and then absolute
    <<CMD_REF_RELATIVE, CMD_REF_STORE, CMD_REF_ABSOLUTE, CMD_REF_STORE, CMD_REF_RELATIVE>>
  }

-----------------------------------------------------------------------------
(* Initial states: the state after construction, or the state a session    *)
(* prefix of Prologues leaves; nothing of the model's budgets used yet.    *)

Init ==
  /\ \E p \in Prologues :
       \E m \in {Run(protocol_init, p)} :
         /\ st = m.st
         /\ pdata = m.pdata
         /\ status_requested = m.status_requested
         /\ superstatus_requested = m.superstatus_requested
         /\ rx_buffer_underruns = m.rx_buffer_underruns
         /\ rx_buffer_underruns_reported = m.rx_buffer_underruns_reported
         /\ stop_requested = m.stop_requested
         /\ stop_status = m.stop_status
         /\ position = m.position
         /\ blocks = m.blocks
         /\ planner_position = m.planner_position
         /\ out = m.out
         /\ handled = m.handled
  /\ chr = 0
  /\ val = 0
  /\ pc = "read"
  /\ resync_due = FALSE
  /\ nread = 0
  /\ frames = <<>>
  /\ emitted = 0

-----------------------------------------------------------------------------
(* Main thread *)

(* Mutant: a byte discarded under a stop is not followed by protocol_idle(). *)
LoopByte_no_idle_when_stopped(c, ub) ==
  /\ pc = "read"
  /\ nread < MaxBytes
  /\ loop_can_proceed(Machine, c)
  /\ ~loop_waits(Machine, c)
  /\ Store(protocol_loop(Machine, c, ub))
  /\ chr' = c
  /\ pc' = IF stop_requested THEN "read" ELSE "idle"
  /\ nread' = nread + 1
  /\ resync_due' = (resync_due \/ (stop_requested' /\ ~stop_requested))
  /\ UNCHANGED val

(* protocol_loop reads a byte and handles it (lines 137-162). *)
LoopByte(c, ub) ==
  /\ pc = "read"
  /\ nread < MaxBytes
  /\ loop_can_proceed(Machine, c)
  /\ ~loop_waits(Machine, c)
  /\ Store(protocol_loop(Machine, c, ub))
  /\ chr' = c
  /\ pc' = "idle"
  /\ nread' = nread + 1
  /\ resync_due' = (resync_due \/ (stop_requested' /\ ~stop_requested))
  /\ UNCHANGED val

(* The byte is an offset parameter in relative mode: on_param decodes val  *)
(* and enters while(stepper_processing()).                                 *)
LoopByteWait(c) ==
  /\ pc = "read"
  /\ nread < MaxBytes
  /\ loop_waits(Machine, c)
  /\ chr' = c
  /\ val' = get_curent_value(Machine)
  /\ handled' = "param"
  /\ out' = <<>>
  /\ pc' = "drain"
  /\ nread' = nread + 1
  /\ UNCHANGED <<st, pdata, status_requested, superstatus_requested, rx_buffer_underruns,
                 rx_buffer_underruns_reported, stop_requested, stop_status, position,
                 blocks, planner_position, resync_due, frames, emitted>>

(* One round of while(stepper_processing()) { protocol_idle(); } *)
DrainIdle(sense) ==
  /\ pc = "drain"
  /\ stepper_processing(Machine)
  /\ Store([protocol_idle(Machine, sense) EXCEPT !.handled = handled])
  /\ resync_due' = (resync_due /\ ~stop_requested)
  /\ UNCHANGED <<chr, val, pc, nread>>

(* The wait is over: the offset is set, on_param returns and protocol_loop *)
(* resets the buffer (line 154).                                           *)
DrainDone ==
  /\ pc = "drain"
  /\ ~stepper_processing(Machine)
  /\ Store([on_param_resume(Machine, chr, val) EXCEPT !.pdata.count = 0, !.handled = handled])
  /\ pc' = "idle"
  /\ UNCHANGED <<chr, val, resync_due, nread>>

(* The protocol_idle() call that ends the iteration (lines 142, 163).      *)
(* chr and val are dead from here on and are cleared.                      *)
Idle(sense) ==
  /\ pc = "idle"
  /\ Store(protocol_idle(Machine, sense))
  /\ resync_due' = (resync_due /\ ~stop_requested)
  /\ chr' = 0
  /\ val' = 0
  /\ pc' = "read"
  /\ UNCHANGED nread

(* protocol_idle() called while serial_protocol_read() or a planner call   *)
(* is blocked.                                                             *)
IdleBlocked(sense) ==
  /\ pc = "read"
  /\ Store(protocol_idle(Machine, sense))
  /\ resync_due' = (resync_due /\ ~stop_requested)
  /\ UNCHANGED <<chr, val, pc, nread>>

-----------------------------------------------------------------------------
(* protocol_idle in steps. frames holds, for each protocol_idle() call     *)
(* that is inside its report, the line it has reached; the main thread     *)
(* is inside the innermost one.                                            *)

MaxDepth == 2

At(p) == frames # <<>> /\ frames[Len(frames)] = p

Goto(p) == [frames EXCEPT ![Len(frames)] = p]

Here == [Machine EXCEPT !.handled = handled]

(* The caller of the outermost protocol_idle() goes on: protocol_loop      *)
(* reads the next byte, a blocked read or a drain wait tests again.        *)
Return(f) ==
  /\ pc' = IF f = <<>> /\ pc = "idle" THEN "read" ELSE pc
  /\ chr' = IF f = <<>> /\ pc = "idle" THEN 0 ELSE chr
  /\ val' = IF f = <<>> /\ pc = "idle" THEN 0 ELSE val
  /\ UNCHANGED nread

(* A step inside the report, from line p to line q. *)
ReportStep(p, m, q) ==
  /\ At(p)
  /\ StoreFrames(m, Goto(q))
  /\ UNCHANGED <<chr, val, pc, resync_due, nread>>

(* protocol_idle() is called, runs the interlock and the stop recovery     *)
(* (lines 354-371), tests the request flags (374) and either returns or    *)
(* enters its report.                                                      *)
IdleEntry(sense) ==
  /\ resync_due' = (resync_due /\ ~stop_requested)
  /\ \E m \in {idle_stop_recovery(idle_interlock(Here, sense))} :
       IF m.status_requested \/ m.superstatus_requested
       THEN /\ StoreFrames(m, Append(frames, "status_clear"))
            /\ UNCHANGED <<chr, val, pc, nread>>
       ELSE /\ StoreFrames([m EXCEPT !.handled = IF frames = <<>> /\ pc = "idle"
                                                 THEN "none" ELSE handled], frames)
            /\ Return(frames)

(* The call of protocol_loop after a byte, of a blocked read and of the    *)
(* drain wait.                                                             *)
IdleCall(sense) ==
  /\ frames = <<>>
  /\ pc = "drain" => stepper_processing(Machine)
  /\ IdleEntry(sense)

(* The call of a serial write of the report that finds the transmit        *)
(* buffer full (the caller named in lines 334-335); the innermost call is  *)
(* at a statement that writes.                                             *)
IdleCallInWrite(sense) ==
  /\ frames # <<>>
  /\ frames[Len(frames)] \in {"head", "underrun_write", "stack", "superstatus_fields", "end"}
  /\ Len(frames) < MaxDepth
  /\ IdleEntry(sense)

(* Line 375. *)
ReportStatusClear ==
  ReportStep("status_clear", [Here EXCEPT !.status_requested = FALSE], "head")

(* Lines 377-423: idle flag, door and chiller, stop code, limits, position. *)
ReportHead(sense) ==
  ReportStep("head",
             [Here EXCEPT !.out = @ \o report_idle(Here, sense)
                                    \o report_interlocks(sense)
                                    \o report_stop(stop_status)
                                    \o report_limits(sense, stop_status)
                                    \o report_position(Here)],
             "underrun_test")

(* Line 425. *)
ReportUnderrunTest ==
  ReportStep("underrun_test", Here,
             IF ~rx_buffer_underruns_reported THEN "underrun_write" ELSE "stack")

(* Line 426: the counter is read and written to the serial line. *)
ReportUnderrunWrite ==
  ReportStep("underrun_write",
             [Here EXCEPT !.out = @ \o <<serial_write_param("INFO_BUFFER_UNDERRUN",
                                                             rx_buffer_underruns)>>],
             "underrun_set")

(* Line 427. *)
ReportUnderrunSet ==
  ReportStep("underrun_set", [Here EXCEPT !.rx_buffer_underruns_reported = TRUE], "stack")

(* Line 430. *)
ReportStack(sense) ==
  ReportStep("stack",
             [Here EXCEPT !.out = @ \o <<serial_write_param("INFO_STACK_CLEARANCE",
                                                             sense.stack)>>],
             "superstatus_test")

(* Line 432. *)
ReportSuperstatusTest ==
  ReportStep("superstatus_test", Here,
             IF superstatus_requested THEN "superstatus_clear" ELSE "end")

(* Line 433. *)
ReportSuperstatusClear ==
  ReportStep("superstatus_clear", [Here EXCEPT !.superstatus_requested = FALSE],
             "superstatus_fields")

(* Lines 434-445: the fields of report_superstatus, past its test. *)
ReportSuperstatusFields ==
  ReportStep("superstatus_fields",
             [Here EXCEPT !.out = @ \o report_superstatus(
                                          [Here EXCEPT !.superstatus_requested = TRUE])],
             "end")

(* Line 448, and protocol_idle() returns to its caller. *)
ReportEnd ==
  /\ At("end")
  /\ \E f \in {SubSeq(frames, 1, Len(frames) - 1)} :
       /\ StoreFrames([report_end(Here) EXCEPT !.handled = IF f = <<>> /\ pc = "idle"
                                                           THEN "none" ELSE handled], f)
       /\ Return(f)
  /\ UNCHANGED resync_due

-----------------------------------------------------------------------------
(* Interrupts and the executor *)

Quiet == out' = <<>> /\ UNCHANGED <<frames, emitted>>

(* The executor or an interrupt requests a stop. *)
RaiseStop(status) ==
  /\ ~stop_requested
  /\ stop_requested' = TRUE
  /\ stop_status' = status
  /\ resync_due' = TRUE
  /\ Quiet
  /\ UNCHANGED <<st, pdata, status_requested, superstatus_requested, rx_buffer_underruns,
                 rx_buffer_underruns_reported, chr, val, pc, position, blocks,
                 planner_position, handled, nread>>

(* The external clear of the stop. *)
ClearStop ==
  /\ stop_requested
  /\ stop_requested' = FALSE
  /\ stop_status' = "STOPERROR_OK"
  /\ Quiet
  /\ UNCHANGED <<st, pdata, status_requested, superstatus_requested, rx_buffer_underruns,
                 rx_buffer_underruns_reported, chr, val, pc, position, blocks,
                 planner_position, handled, resync_due, nread>>

protocol_request_status ==
  /\ ~status_requested
  /\ status_requested' = TRUE
  /\ Quiet
  /\ UNCHANGED <<st, pdata, superstatus_requested, rx_buffer_underruns,
                 rx_buffer_underruns_reported, chr, val, pc, stop_requested, stop_status,
                 position, blocks, planner_position, handled, resync_due, nread>>

protocol_request_superstatus ==
  /\ ~superstatus_requested
  /\ superstatus_requested' = TRUE
  /\ Quiet
  /\ UNCHANGED <<st, pdata, status_requested, rx_buffer_underruns,
                 rx_buffer_underruns_reported, chr, val, pc, stop_requested, stop_status,
                 position, blocks, planner_position, handled, resync_due, nread>>

protocol_mark_underrun ==
  /\ rx_buffer_underruns < MaxUnderruns
  /\ rx_buffer_underruns' = rx_buffer_underruns + 1
  /\ rx_buffer_underruns_reported' = FALSE
  /\ Quiet
  /\ UNCHANGED <<st, pdata, status_requested, superstatus_requested, chr, val, pc,
                 stop_requested, stop_status, position, blocks, planner_position,
                 handled, resync_due, nread>>

ExecuteBlock ==
  /\ ~stop_requested
  /\ blocks # <<>>
  /\ position' = execute_block(Machine).position
  /\ blocks' = execute_block(Machine).blocks
  /\ Quiet
  /\ UNCHANGED <<st, pdata, status_requested, superstatus_requested, rx_buffer_underruns,
                 rx_buffer_underruns_reported, chr, val, pc, stop_requested, stop_status,
                 planner_position, handled, resync_due, nread>>

Next ==
  \/ \E c \in Bytes : \E ub \in UbFor(c) : LoopByte(c, ub)
  \/ \E c \in Bytes : LoopByteWait(c)
  \/ \E sense \in SenseInputs : DrainIdle(sense)
  \/ DrainDone
  \/ \E sense \in SenseInputs : Idle(sense)
  \/ \E sense \in SenseInputs : IdleBlocked(sense)
  \/ \E status \in ExternalStops : RaiseStop(status)
  \/ ClearStop
  \/ ExecuteBlock

Spec == Init /\ [][Next]_vars

(* The same with the interrupt entry points of the status report. *)
NextAll ==
  \/ Next
  \/ protocol_request_status
  \/ protocol_request_superstatus
  \/ protocol_mark_underrun

SpecAll == Init /\ [][NextAll]_vars

(* The status report: the main thread reading a few bytes, the interrupt  *)
(* entry points of the report, the stop and the executor.                  *)
ReportBytes == {CMD_LINE, PARAM_OFFSET_X, 128}

NextReport ==
  \/ \E c \in ReportBytes : \E ub \in UbFor(c) : LoopByte(c, ub)
  \/ \E c \in ReportBytes : LoopByteWait(c)
  \/ \E sense \in SenseInputs : DrainIdle(sense)
  \/ DrainDone
  \/ \E sense \in SenseInputs : Idle(sense)
  \/ \E sense \in SenseInputs : IdleBlocked(sense)
  \/ \E status \in ExternalStops : RaiseStop(status)
  \/ ClearStop
  \/ ExecuteBlock
  \/ protocol_request_status
  \/ protocol_request_superstatus
  \/ protocol_mark_underrun

SpecReport == Init /\ [][NextReport]_vars

(* The main thread alone, reading any marker value. *)
NextScan ==
  \/ \E c \in ScanBytes : \E ub \in UbFor(c) : LoopByte(c, ub)
  \/ \E c \in ScanBytes : LoopByteWait(c)
  \/ DrainDone
  \/ \E sense \in SenseInputs : Idle(sense)

SpecScan == Init /\ [][NextScan]_vars

(* The numeric codec: the host encodes a number and sends its 4 bytes,     *)
(* then a parameter marker makes on_param decode them.                     *)
(* The numbers: the ends of the range, those around each power of two of   *)
(* the encoded integer, a mixed bit pattern and a few of the sessions.     *)
CodecValues ==
  {-134217728, 134217727, -1500, 250, 2000, 5000, 13925244, 44739242 - 134217728}
    \cup {2 ^ k - 134217728 : k \in 0 .. 27}
    \cup {2 ^ k - 1 - 134217728 : k \in 0 .. 27}

(* Data bytes a host can send, and the runs of 4 of them: the encodings    *)
(* of the numbers and every run over a few byte values.                    *)
CodecDataBytes == {128, 129, 192, 254, 255}
CodecRuns == {chars4_from_double(v) : v \in CodecValues} \cup [1 .. 4 -> CodecDataBytes]
CodecBytes == {PARAM_FEEDRATE, PARAM_PIXEL_WIDTH}

(* The host sends 4 data bytes to an empty buffer; protocol_loop handles   *)
(* each and calls protocol_idle() after it.                                *)
HostData(chars) ==
  /\ pc = "read"
  /\ nread = 0
  /\ pdata.count = 0
  /\ ~stop_requested
  /\ Store(Run(Machine, chars))
  /\ UNCHANGED <<chr, val, pc, resync_due, nread>>

NextCodec ==
  \/ \E chars \in CodecRuns : HostData(chars)
  \/ \E c \in CodecBytes : \E ub \in UbFor(c) : LoopByte(c, ub)
  \/ \E sense \in SenseInputs : Idle(sense)

SpecCodec == Init /\ [][NextCodec]_vars


(* protocol_idle in steps, with the interrupt entry points of the report  *)
(* between any two of them; the host is silent and the main thread, with   *)
(* its read blocked, calls protocol_idle() again and again.                *)
NextSteps ==
  \/ \E sense \in SenseInputs : IdleCall(sense)
  \/ ReportStatusClear
  \/ \E sense \in SenseInputs : ReportHead(sense)
  \/ ReportUnderrunTest
  \/ ReportUnderrunWrite
  \/ ReportUnderrunSet
  \/ \E sense \in SenseInputs : ReportStack(sense)
  \/ ReportSuperstatusTest
  \/ ReportSuperstatusClear
  \/ ReportSuperstatusFields
  \/ ReportEnd
  \/ protocol_request_status
  \/ protocol_request_superstatus
  \/ protocol_mark_underrun

SpecSteps == Init /\ [][NextSteps]_vars

(* The same with every caller of protocol_idle(): protocol_loop after a    *)
(* byte, which it reads only outside protocol_idle(), the blocked read,    *)
(* the drain wait, and the blocked serial writes of the report itself.     *)
NextNested ==
  \/ NextSteps
  \/ \E c \in ReportBytes : \E ub \in UbFor(c) : frames = <<>> /\ LoopByte(c, ub)
  \/ \E c \in ReportBytes : frames = <<>> /\ LoopByteWait(c)
  \/ frames = <<>> /\ DrainDone
  \/ ExecuteBlock
  \/ \E sense \in SenseInputs : IdleCallInWrite(sense)

SpecNested == Init /\ [][NextNested]_vars

(* The scheduling of the main thread in SpecSteps: it keeps running, in   *)
(* protocol_idle() or back in the blocked read, which calls                *)
(* protocol_idle() again.                                                  *)
FairSteps ==
  /\ SpecSteps
  /\ WF_vars(\/ \E sense \in SenseInputs : IdleCall(sense)
             \/ ReportStatusClear
             \/ \E sense \in SenseInputs : ReportHead(sense)
             \/ ReportUnderrunTest
             \/ ReportUnderrunWrite
             \/ ReportUnderrunSet
             \/ \E sense \in SenseInputs : ReportStack(sense)
             \/ ReportSuperstatusTest
             \/ ReportSuperstatusClear
             \/ ReportSuperstatusFields
             \/ ReportEnd)

(* The scheduling of the firmware: the main thread keeps running, and the  *)
(* executor's timer interrupt steps whenever it is not stopped.            *)
Fairness ==
  /\ \A sense \in SenseInputs : WF_vars(DrainIdle(sense))
  /\ WF_vars(DrainDone)
  /\ SF_vars(ExecuteBlock)

FairSpec == Spec /\ Fairness

-----------------------------------------------------------------------------
(* Properties *)

(* The main thread read a byte and handled it (LoopByte or LoopByteWait). *)
LoopStep == pc = "read" /\ pc' # "read"

(* The main thread ran protocol_idle(). *)
IdleStep == \E sense \in SenseInputs : Idle(sense) \/ IdleBlocked(sense) \/ DrainIdle(sense)

(* C1: a byte read while a stop is requested is discarded: nothing is      *)
(* dispatched, no parameter is applied (st unchanged), the buffer is       *)
(* unchanged, nothing reaches the planner or any other collaborator, and   *)
(* the stop stays requested; the iteration goes straight to its idle call. *)
C1_StopDiscardsBytes ==
  [][(LoopStep /\ stop_requested) =>
       /\ handled' = "ignored"
       /\ pc' = "idle"
       /\ st' = st
       /\ pdata' = pdata
       /\ val' = val
       /\ blocks' = blocks
       /\ planner_position' = planner_position
       /\ position' = position
       /\ out' = <<>>
       /\ stop_requested'
       /\ stop_status' = stop_status]_vars

(* A LINE command was read while a stop was requested, and ignored. *)
C1_Witness ==
  /\ pc = "idle"
  /\ stop_requested
  /\ handled = "ignored"
  /\ chr = CMD_LINE

(* C2: with no stop active, a data byte read when 4 data bytes are         *)
(* buffered raises the InvalidData stop and leaves the buffer as it was;   *)
(* a marker byte read while the stop is requested is ignored.              *)
C2_FifthDataByte ==
  [][/\ (LoopStep /\ ~stop_requested /\ chr' >= 128
           /\ pdata.count = PARAM_MAX_DATA_LENGTH) =>
          /\ handled' = "overflow"
          /\ stop_requested'
          /\ stop_status' = "STOPERROR_INVALID_DATA"
          /\ pdata' = pdata
          /\ st' = st
     /\ (LoopStep /\ stop_requested /\ stop_status = "STOPERROR_INVALID_DATA"
           /\ chr' < 128) =>
          /\ handled' = "ignored"
          /\ st' = st
          /\ pdata' = pdata
          /\ blocks' = blocks
          /\ out' = <<>>
          /\ stop_status' = "STOPERROR_INVALID_DATA"]_vars

(* A parameter marker was ignored under the stop a 5th data byte raised. *)
C2_Witness ==
  /\ pc = "idle"
  /\ handled = "ignored"
  /\ chr = PARAM_TARGET_X
  /\ stop_requested
  /\ stop_status = "STOPERROR_INVALID_DATA"
  /\ nread = 2

(* C3: with no stop active, a byte below 128 in 65..90 is handed to        *)
(* on_cmd, one in 97..122 is handed to on_param, and any other raises the  *)
(* InvalidMarker stop with st, the planner queue and the collaborators     *)
(* untouched.                                                              *)
C3_MarkerClassification ==
  [][(LoopStep /\ ~stop_requested /\ chr' < 128) =>
       IF chr' \in 65 .. 90 THEN
         /\ handled' = "cmd"
         /\ st' = on_cmd(Machine, chr').st
         /\ blocks' = on_cmd(Machine, chr').blocks
         /\ out' = on_cmd(Machine, chr').out
         /\ stop_status' = on_cmd(Machine, chr').stop_status
       ELSE IF chr' \in 97 .. 122 THEN
         /\ handled' = "param"
         /\ \/ pc' = "drain"
            \/ \E ub \in UbChoices :
                 /\ st' = on_param(Machine, chr', ub).st
                 /\ stop_status' = on_param(Machine, chr', ub).stop_status
       ELSE
         /\ handled' = "invalid_marker"
         /\ stop_requested'
         /\ stop_status' = "STOPERROR_INVALID_MARKER"
         /\ st' = st
         /\ blocks' = blocks
         /\ out' = <<>>]_vars

(* The byte 96, between the two marker ranges, raised InvalidMarker. *)
C3_Witness ==
  /\ pc = "idle"
  /\ handled = "invalid_marker"
  /\ chr = 96
  /\ stop_requested
  /\ stop_status = "STOPERROR_INVALID_MARKER"

(* C4: with no stop active, a parameter marker (any value in 97..122) read *)
(* when the buffer count is not 4 raises the InvalidData stop and leaves   *)
(* every field of st as it was.                                            *)
C4_ParamNeedsFourBytes ==
  [][(LoopStep /\ ~stop_requested /\ chr' \in 97 .. 122
        /\ pdata.count # PARAM_MAX_DATA_LENGTH) =>
       /\ handled' = "param"
       /\ pc' = "idle"
       /\ stop_requested'
       /\ stop_status' = "STOPERROR_INVALID_DATA"
       /\ st' = st]_vars

(* PARAM_TARGET_X arrived after two data bytes only. *)
C4_Witness ==
  /\ pc = "idle"
  /\ handled = "param"
  /\ chr = PARAM_TARGET_X
  /\ pdata.chars[1] = 192 /\ pdata.chars[3] = 0
  /\ stop_status = "STOPERROR_INVALID_DATA"

(* The number the 4 buffered bytes stand for, as the protocol defines it:  *)
(* sum of (byte[i]-128) * 128^i, minus 2^27, in thousandths.               *)
double_from_chars_4(chars) ==
  (chars[1] - 128) + (chars[2] - 128) * 128 + (chars[3] - 128) * 128 * 128
    + (chars[4] - 128) * 128 * 128 * 128 - 134217728

(* The axis a target or offset parameter names. *)
ParamAxis(parameter) ==
  IF parameter \in {PARAM_TARGET_X, PARAM_OFFSET_X} THEN 1
  ELSE IF parameter \in {PARAM_TARGET_Y, PARAM_OFFSET_Y} THEN 2 ELSE 3

(* C5: a target parameter read with 4 bytes buffered and decoded value d:  *)
(* in relative mode target[axis] grows by d, in absolute mode it becomes   *)
(* d + origin_offset[axis] + offset[axis]; nothing else of st changes.     *)
C5_TargetSetter ==
  [][(LoopStep /\ ~stop_requested /\ chr' \in TargetParams
        /\ pdata.count = PARAM_MAX_DATA_LENGTH) =>
       LET a == ParamAxis(chr')
           d == double_from_chars_4(pdata.chars)
       IN /\ st.ref_mode = REF_RELATIVE => st'.target[a] = st.target[a] + d
          /\ st.ref_mode = REF_ABSOLUTE =>
               st'.target[a] = d + origin_offset[a] + st.offset[a]
          /\ \A b \in Axes \ {a} : st'.target[b] = st.target[b]
          /\ st' = [st EXCEPT !.target[a] = st'.target[a]]]_vars

(* Relative mode: 0.250 was added to the pending target x = 12.000 while   *)
(* the head was still at x = 10.000.                                       *)
C5_Witness ==
  /\ pc = "idle"
  /\ handled = "param"
  /\ chr = PARAM_TARGET_X
  /\ st.ref_mode = REF_RELATIVE
  /\ st.target = <<12250, 5000, 0>>
  /\ position = <<10000, 0, 0>>

(* C6: protocol_idle() entered while a stop is requested empties the       *)
(* planner queue, sets the planner position and st.target to the actual    *)
(* position, sets the buffer count to 0 and leaves the rest of st as is.   *)
C6_StopRecovery ==
  [][(IdleStep /\ stop_requested) =>
       /\ blocks' = <<>>
       /\ planner_position' = position
       /\ st' = [st EXCEPT !.target = position]
       /\ pdata'.count = 0
       /\ position' = position
       /\ \E i \in 1 .. Len(out') - 1 :
            /\ out'[i] = Ev("planner_reset_block_buffer", "", <<>>)
            /\ out'[i + 1] = Ev("planner_set_position", "", position)]_vars

(* The recovery ran on the session that had a line pending to (12, 5, 0),  *)
(* relative mode set and 4 bytes buffered, with the head at the origin.    *)
C6_Witness ==
  /\ pc = "read"
  /\ stop_requested
  /\ \E i \in 1 .. Len(out) : out[i].op = "planner_reset_block_buffer"
  /\ blocks = <<>>
  /\ st.ref_mode = REF_RELATIVE
  /\ pdata.chars = chars4_from_double(250)
  /\ pdata.count = 0
  /\ st.target = <<10000, 0, 0>>
  /\ planner_position = <<10000, 0, 0>>
  /\ nread = 0

(* C7: a byte is dispatched normally only if every stop raised before it   *)
(* has been followed by a stop recovery of protocol_idle().                *)
C7_ResyncBeforeDispatch ==
  [][(LoopStep /\ ~stop_requested) => ~resync_due]_vars

(* C8: a drain wait during which a stop is requested comes to an end. *)
C8_DrainTerminates == (pc = "drain" /\ stop_requested) ~> (pc # "drain")

(* In the drain wait, under a stop, protocol_idle() has just emptied the   *)
(* queue the setter was waiting for.                                       *)
C8_Witness ==
  /\ pc = "drain"
  /\ stop_requested
  /\ blocks = <<>>
  /\ \E i \in 1 .. Len(out) : out[i].op = "planner_reset_block_buffer"

(* C9: an offset parameter read with 4 bytes buffered: in absolute mode    *)
(* offset[axis] becomes the decoded value at once; in relative mode the    *)
(* setter keeps the decoded value, waits, and when it leaves the wait no   *)
(* motion is pending and offset[axis] becomes                              *)
(* position[axis] - origin_offset[axis] + value. Nothing else of st is     *)
(* changed by the setter.                                                  *)
C9_OffsetSetter ==
  [][/\ (LoopStep /\ ~stop_requested /\ chr' \in OffsetParams
           /\ pdata.count = PARAM_MAX_DATA_LENGTH /\ st.ref_mode = REF_ABSOLUTE) =>
          /\ pc' = "idle"
          /\ st' = [st EXCEPT !.offset[ParamAxis(chr')] = double_from_chars_4(pdata.chars)]
     /\ (LoopStep /\ ~stop_requested /\ chr' \in OffsetParams
           /\ pdata.count = PARAM_MAX_DATA_LENGTH /\ st.ref_mode = REF_RELATIVE) =>
          /\ pc' = "drain"
          /\ val' = double_from_chars_4(pdata.chars)
          /\ st' = st
     /\ (pc = "drain" /\ pc' = "drain") =>
          /\ val' = val
          /\ chr' = chr
          /\ st'.offset = st.offset
     /\ (pc = "drain" /\ pc' # "drain") =>
          /\ blocks = <<>>
          /\ st' = [st EXCEPT !.offset[ParamAxis(chr)] =
                      position[ParamAxis(chr)] - origin_offset[ParamAxis(chr)] + val]]_vars

(* Relative mode: offset y was set to 5.000 - 0 + 0.250 once the pending   *)
(* line to (12, 5, 0) had been executed.                                   *)
C9_Witness ==
  /\ pc = "idle"
  /\ chr = PARAM_OFFSET_Y
  /\ st.ref_mode = REF_RELATIVE
  /\ st.offset = <<0, 5250, 0>>
  /\ position = <<12000, 5000, 0>>

(* C10: HOMING calls the homing cycle and then submits one line, to the    *)
(* origin offsets, with the current feedrate, intensity 0 and pixel width  *)
(* 0; of st only offset (cleared) and target (the origin offsets) change.  *)
C10_Homing ==
  [][(LoopStep /\ ~stop_requested /\ chr' = CMD_HOMING) =>
       LET move == <<CONFIG_X_ORIGIN_OFFSET, CONFIG_Y_ORIGIN_OFFSET,
                     CONFIG_Z_ORIGIN_OFFSET, st.feedrate, 0, 0>>
       IN /\ out' = <<Ev("stepper_homing_cycle", "", <<>>), Ev("planner_line", "", move)>>
          /\ blocks' = Append(blocks, [type |-> "line", v |-> move])
          /\ st' = [st EXCEPT !.offset = <<0, 0, 0>>,
                              !.target = <<CONFIG_X_ORIGIN_OFFSET, CONFIG_Y_ORIGIN_OFFSET,
                                           CONFIG_Z_ORIGIN_OFFSET>>]]_vars

(* HOMING ran with offset (0, 5, 0) set and stored and intensity 40. *)
C10_Witness ==
  /\ pc = "idle"
  /\ chr = CMD_HOMING
  /\ handled = "cmd"
  /\ st.offset = <<0, 0, 0>>
  /\ st.offset_store = <<0, 5000, 0>>
  /\ st.intensity = 40
  /\ st.target = <<10000, 0, 0>>
  /\ Len(out) = 2
  /\ Len(blocks) = 1

(* C11: the reference-mode slot holds one value, the last one stored:      *)
(* REF_STORE copies ref_mode into the slot and changes nothing else,       *)
(* REF_RESTORE copies the slot into ref_mode and changes nothing else,     *)
(* and no other step writes the slot.                                      *)
C11_RefStoreSingleSlot ==
  [][/\ (LoopStep /\ ~stop_requested /\ chr' = CMD_REF_STORE) =>
          st' = [st EXCEPT !.ref_mode_store = st.ref_mode]
     /\ (LoopStep /\ ~stop_requested /\ chr' = CMD_REF_RESTORE) =>
          st' = [st EXCEPT !.ref_mode = st.ref_mode_store]
     /\ (st'.ref_mode_store # st.ref_mode_store) =>
          (LoopStep /\ ~stop_requested /\ chr' = CMD_REF_STORE)]_vars

(* REF_RELATIVE; REF_STORE; REF_ABSOLUTE; REF_STORE; REF_RELATIVE;         *)
(* REF_RESTORE: the mode is the one of the second store (absolute), not    *)
(* the one of the first (relative).                                        *)
C11_Witness ==
  /\ pc = "idle"
  /\ chr = CMD_REF_RESTORE
  /\ handled = "cmd"
  /\ nread = 1
  /\ st.ref_mode = REF_ABSOLUTE
  /\ st.ref_mode_store = REF_ABSOLUTE

(* C12: ref_mode is always REF_RELATIVE or REF_ABSOLUTE, and a step that   *)
(* changes it is the dispatch of REF_RELATIVE, REF_ABSOLUTE or REF_RESTORE. *)
C12_RefModeFrame ==
  /\ [](st.ref_mode \in {REF_RELATIVE, REF_ABSOLUTE})
  /\ [][(st'.ref_mode # st.ref_mode) =>
          (LoopStep /\ ~stop_requested
             /\ chr' \in {CMD_REF_RELATIVE, CMD_REF_ABSOLUTE, CMD_REF_RESTORE})]_vars

(* In relative mode an invalid marker raised the stop and the stop         *)
(* recovery ran: the mode is still relative.                               *)
C12_Witness ==
  /\ pc = "read"
  /\ stop_requested
  /\ stop_status = "STOPERROR_INVALID_MARKER"
  /\ \E i \in 1 .. Len(out) : out[i].op = "planner_reset_block_buffer"
  /\ st.ref_mode = REF_RELATIVE
  /\ st.target = position

(* C13: the offset slot holds one 3-axis value, the last one stored:       *)
(* OFFSET_STORE copies offset into the slot and changes nothing else,      *)
(* OFFSET_RESTORE copies the slot into offset and changes nothing else,    *)
(* and no other step (offset parameter, HOMING, ...) writes the slot.      *)
C13_OffsetStoreSingleSlot ==
  [][/\ (LoopStep /\ ~stop_requested /\ chr' = CMD_OFFSET_STORE) =>
          st' = [st EXCEPT !.offset_store = st.offset]
     /\ (LoopStep /\ ~stop_requested /\ chr' = CMD_OFFSET_RESTORE) =>
          st' = [st EXCEPT !.offset = st.offset_store]
     /\ (st'.offset_store # st.offset_store) =>
          (LoopStep /\ ~stop_requested /\ chr' = CMD_OFFSET_STORE)]_vars

(* Offset (0, 5, 0) was stored, HOMING cleared the offset, and             *)
(* OFFSET_RESTORE brought (0, 5, 0) back.                                  *)
C13_Witness ==
  /\ pc = "idle"
  /\ chr = CMD_OFFSET_RESTORE
  /\ nread = 2
  /\ st.offset = <<0, 5000, 0>>
  /\ st.offset_store = <<0, 5000, 0>>
  /\ st.target = <<10000, 0, 0>>
  /\ blocks # <<>>
  /\ blocks[Len(blocks)].v = <<10000, 0, 0, 8000000, 0, 0>>

(* C14: LINE makes one planner_line call with target X/Y/Z, feedrate,      *)
(* intensity and pixel width 0; RASTER the same with st.pixel_width; DWELL *)
(* one planner_dwell call with duration and intensity. The call queues one *)
(* block and st is unchanged.                                              *)
C14_MotionCommands ==
  [][/\ (LoopStep /\ ~stop_requested /\ chr' = CMD_LINE) =>
          LET move == <<st.target[1], st.target[2], st.target[3],
                        st.feedrate, st.intensity, 0>>
          IN /\ out' = <<Ev("planner_line", "", move)>>
             /\ blocks' = Append(blocks, [type |-> "line", v |-> move])
             /\ st' = st
     /\ (LoopStep /\ ~stop_requested /\ chr' = CMD_RASTER) =>
          LET move == <<st.target[1], st.target[2], st.target[3],
                        st.feedrate, st.intensity, st.pixel_width>>
          IN /\ out' = <<Ev("planner_line", "", move)>>
             /\ blocks' = Append(blocks, [type |-> "line", v |-> move])
             /\ st' = st
     /\ (LoopStep /\ ~stop_requested /\ chr' = CMD_DWELL) =>
          LET pulse == <<st.duration, st.intensity>>
          IN /\ out' = <<Ev("planner_dwell", "", pulse)>>
             /\ blocks' = Append(blocks, [type |-> "dwell", v |-> pulse])
             /\ st' = st]_vars

(* LINE ran with pixel width 7.000 stored and intensity 40: the line to    *)
(* the pending target went out with pixel width 0, behind the dwell.       *)
C14_Witness ==
  /\ pc = "idle"
  /\ chr = CMD_LINE
  /\ st.pixel_width = 7000
  /\ st.intensity = 40
  /\ out = <<Ev("planner_line", "", <<12000, 5000, 0, 8000000, 40, 0>>)>>
  /\ Len(blocks) = 2
  /\ blocks[1].type = "dwell"
  /\ st.target = <<12000, 5000, 0>>

(* C15: a marker in 65..90 that is no defined command raises the stop     *)
(* STOPERROR_INVALID_COMMAND, makes no collaborator call, queues nothing   *)
(* and leaves st unchanged.                                                *)
C15_InvalidCommand ==
  [][(LoopStep /\ ~stop_requested /\ chr' \in 65 .. 90 /\ chr' \notin Commands) =>
       /\ stop_requested'
       /\ stop_status' = "STOPERROR_INVALID_COMMAND"
       /\ out' = <<>>
       /\ blocks' = blocks
       /\ planner_position' = planner_position
       /\ st' = st]_vars

(* 'Z' was read with a dwell pending and intensity 40 stored. *)
C15_Witness ==
  /\ pc = "idle"
  /\ chr = 90
  /\ stop_requested
  /\ stop_status = "STOPERROR_INVALID_COMMAND"
  /\ out = <<>>
  /\ Len(blocks) = 1
  /\ st.intensity = 40

(* C16: a marker in 97..122 that is no defined parameter, read with 4 data *)
(* bytes buffered, raises the stop STOPERROR_INVALID_PARAMETER and leaves  *)
(* st unchanged.                                                           *)
C16_InvalidParameter ==
  [][(LoopStep /\ ~stop_requested /\ chr' \in 97 .. 122 /\ chr' \notin Parameters
        /\ pdata.count = PARAM_MAX_DATA_LENGTH) =>
       /\ stop_requested'
       /\ stop_status' = "STOPERROR_INVALID_PARAMETER"
       /\ out' = <<>>
       /\ st' = st]_vars

(* 'a' was read with the 4 bytes of 5.000 buffered. *)
C16_Witness ==
  /\ pc = "idle"
  /\ chr = 97
  /\ stop_requested
  /\ stop_status = "STOPERROR_INVALID_PARAMETER"
  /\ pdata.chars = chars4_from_double(5000)
  /\ st = protocol_init.st

(* C17: when the loop has handled a marker byte (command, parameter or     *)
(* invalid marker, with or without an error, the drain wait of a relative  *)
(* offset included), pdata.count is 0.                                     *)
C17_CountResetAfterMarker ==
  [][(\/ LoopStep /\ ~stop_requested /\ chr' < 128 /\ pc' = "idle"
      \/ pc = "drain" /\ pc' = "idle") => pdata'.count = 0]_vars

(* An invalid marker was read with 2 data bytes buffered. *)
C17_Witness ==
  /\ pc = "idle"
  /\ handled = "invalid_marker"
  /\ chr = 123
  /\ stop_status = "STOPERROR_INVALID_MARKER"
  /\ pdata.chars = <<192, 128, 0, 0>>
  /\ pdata.count = 0

(* C18: every byte read takes the loop to its protocol_idle() call (at     *)
(* once, or through the drain wait of a relative offset), whatever branch  *)
(* handled the byte; from there the loop goes on by running protocol_idle() *)
(* once, and only then reads the next byte.                                *)
C18_IdleAfterEveryByte ==
  [][/\ (nread' # nread) =>
          /\ pc = "read"
          /\ pc' \in {"idle", "drain"}
          /\ handled' \in {"cmd", "param", "invalid_marker", "data", "overflow", "ignored"}
     /\ (pc = "drain" /\ pc' # "drain") => pc' = "idle"
     /\ (pc = "idle" /\ pc' # "idle") =>
          /\ pc' = "read"
          /\ \E sense \in SenseInputs : Idle(sense)]_vars

(* A byte was discarded under a stop and the loop stands at the            *)
(* protocol_idle() call of that iteration.                                 *)
C18_Witness ==
  /\ pc = "idle"
  /\ handled = "ignored"
  /\ stop_requested
  /\ stop_status = "STOPERROR_SERIAL_STOP_REQUEST"
  /\ chr = CMD_LINE
  /\ blocks = <<>>
  /\ nread = 1

(* C19: a protocol_idle() run that senses the door open or the chiller off *)
(* calls control_laser_intensity(0) before anything else it does (stop     *)
(* recovery, serial writes), report pending or not, and leaves             *)
(* st.intensity as it was.                                                 *)
C19_InterlockFirst ==
  [][\A sense \in SenseInputs :
       ((Idle(sense) \/ IdleBlocked(sense) \/ DrainIdle(sense))
          /\ (sense.door \/ sense.chiller)) =>
         /\ out' # <<>>
         /\ out'[1] = Ev("control_laser_intensity", "", <<0>>)
         /\ \A i \in 2 .. Len(out') : out'[i].op # "control_laser_intensity"
         /\ st'.intensity = st.intensity]_vars

(* With intensity 40 stored and a stop requested, an interlock was sensed: *)
(* the laser was switched off, then the stop recovery ran.                 *)
C19_Witness ==
  /\ stop_requested
  /\ Len(out) >= 3
  /\ out[1] = Ev("control_laser_intensity", "", <<0>>)
  /\ out[2].op = "planner_reset_block_buffer"
  /\ out[3].op = "planner_set_position"
  /\ st.intensity = 40

(* The serial writes of a log of calls, in order. *)
IsWrite(e) == e.op \in {"serial_write", "serial_write_param"}

Writes(log) == SelectSeq(log, IsWrite)

(* C20: in a status telegram (a protocol_idle() run with a report          *)
(* requested) INFO_IDLE_YES is written exactly once, as the first write    *)
(* and before STATUS_END, when no block is queued, no input is pending and *)
(* no stop is requested; otherwise it is not written at all.               *)
C20_IdleMarker ==
  [][\A sense \in SenseInputs :
       ((Idle(sense) \/ IdleBlocked(sense) \/ DrainIdle(sense))
          /\ (status_requested \/ superstatus_requested)) =>
         LET w == Writes(out')
             n == Cardinality({i \in 1 .. Len(w) : w[i] = Ev("serial_write", "INFO_IDLE_YES", <<>>)})
         IN /\ w # <<>>
            /\ w[Len(w)] = Ev("serial_write", "STATUS_END", <<>>)
            /\ IF blocks = <<>> /\ ~sense.avail /\ ~stop_requested
               THEN n = 1 /\ w[1] = Ev("serial_write", "INFO_IDLE_YES", <<>>) /\ Len(w) > 1
               ELSE n = 0]_vars

(* A telegram written while fully idle: it starts with INFO_IDLE_YES and   *)
(* ends with STATUS_END.                                                   *)
C20_Witness ==
  /\ ~stop_requested
  /\ blocks = <<>>
  /\ Len(out) > 2
  /\ out[1] = Ev("serial_write", "INFO_IDLE_YES", <<>>)
  /\ out[2] = Ev("sleep_mode", "", <<>>)
  /\ out[Len(out)] = Ev("serial_write", "STATUS_END", <<>>)
  /\ ~status_requested
  /\ ~superstatus_requested

(* The values written with a marker in a log of calls, in order. *)
ParamWrites(log, marker) ==
  SelectSeq(log, LAMBDA e : e.op = "serial_write_param" /\ e.arg = marker)

(* C21: every status telegram reports, per axis, the actual position minus *)
(* the origin offset minus the offset in force when the report is          *)
(* serviced, once per axis; at position (12,5,0) with origin offset        *)
(* (10,0,0) and offset (0,5,0) it reports (2,0,0).                         *)
C21_ReportedPosition ==
  [][(IdleStep /\ (status_requested \/ superstatus_requested)) =>
       /\ ParamWrites(out', "INFO_POS_X")
            = <<Ev("serial_write_param", "INFO_POS_X",
                   <<position[X_AXIS] - origin_offset[X_AXIS] - st.offset[X_AXIS]>>)>>
       /\ ParamWrites(out', "INFO_POS_Y")
            = <<Ev("serial_write_param", "INFO_POS_Y",
                   <<position[Y_AXIS] - origin_offset[Y_AXIS] - st.offset[Y_AXIS]>>)>>
       /\ ParamWrites(out', "INFO_POS_Z")
            = <<Ev("serial_write_param", "INFO_POS_Z",
                   <<position[Z_AXIS] - origin_offset[Z_AXIS] - st.offset[Z_AXIS]>>)>>
       /\ st'.offset = st.offset
       /\ position' = position]_vars

(* The telegram of the example: position (12,5,0), offset (0,5,0). *)
C21_Witness ==
  /\ position = <<12000, 5000, 0>>
  /\ origin_offset = <<10000, 0, 0>>
  /\ st.offset = <<0, 5000, 0>>
  /\ ParamWrites(out, "INFO_POS_X") = <<Ev("serial_write_param", "INFO_POS_X", <<2000>>)>>
  /\ ParamWrites(out, "INFO_POS_Y") = <<Ev("serial_write_param", "INFO_POS_Y", <<0>>)>>
  /\ ParamWrites(out, "INFO_POS_Z") = <<Ev("serial_write_param", "INFO_POS_Z", <<0>>)>>

(* The step wrote a status telegram: it called serial_write or             *)
(* serial_write_param, which only the report of protocol_idle() does.      *)
Telegram == \E i \in 1 .. Len(out') : IsWrite(out'[i])

Ends(log) == Len(SelectSeq(log, LAMBDA e : e = serial_write("STATUS_END")))

TelegramPlace(e, stop_code) ==
  IF e.op = "serial_write" THEN
    CASE e.arg = "INFO_IDLE_YES" -> 1
      [] e.arg = "INFO_DOOR_OPEN" -> 2
      [] e.arg = "INFO_CHILLER_OFF" -> 3
      [] e.arg = stop_code /\ stop_code # "STOPERROR_OK" -> 4
      [] e.arg = "STOPERROR_LIMIT_HIT_X1" /\ e.arg # stop_code -> 5
      [] e.arg = "STOPERROR_LIMIT_HIT_X2" /\ e.arg # stop_code -> 6
      [] e.arg = "STOPERROR_LIMIT_HIT_Y1" /\ e.arg # stop_code -> 7
      [] e.arg = "STOPERROR_LIMIT_HIT_Y2" /\ e.arg # stop_code -> 8
      [] e.arg = "STOPERROR_LIMIT_HIT_Z1" /\ e.arg # stop_code -> 9
      [] e.arg = "STOPERROR_LIMIT_HIT_Z2" /\ e.arg # stop_code -> 10
      [] e.arg = "STATUS_END" -> 24
      [] OTHER -> 0
  ELSE
    CASE e.arg = "INFO_POS_X" -> 11
      [] e.arg = "INFO_POS_Y" -> 12
      [] e.arg = "INFO_POS_Z" -> 13
      [] e.arg = "INFO_BUFFER_UNDERRUN" -> 14
      [] e.arg = "INFO_STACK_CLEARANCE" -> 15
      [] e.arg = "INFO_VERSION" -> 16
      [] e.arg = "INFO_OFFSET_X" -> 17
      [] e.arg = "INFO_OFFSET_Y" -> 18
      [] e.arg = "INFO_OFFSET_Z" -> 19
      [] e.arg = "INFO_FEEDRATE" -> 20
      [] e.arg = "INFO_INTENSITY" -> 21
      [] e.arg = "INFO_DURATION" -> 22
      [] e.arg = "INFO_PIXEL_WIDTH" -> 23
      [] OTHER -> 0

LimitCodes ==
  {"STOPERROR_LIMIT_HIT_X1", "STOPERROR_LIMIT_HIT_X2", "STOPERROR_LIMIT_HIT_Y1",
   "STOPERROR_LIMIT_HIT_Y2", "STOPERROR_LIMIT_HIT_Z1", "STOPERROR_LIMIT_HIT_Z2"}

Times(w, marker) == Cardinality({i \in 1 .. Len(w) : w[i] = serial_write(marker)})

DecodeStep == LoopStep /\ chr' = PARAM_FEEDRATE /\ pdata.count = 4 /\ ~stop_requested

Bit(n, i) == (n \div (2 ^ i)) % 2

Group(n, g) ==
  Bit(n, 7 * g) + 2 * Bit(n, 7 * g + 1) + 4 * Bit(n, 7 * g + 2) + 8 * Bit(n, 7 * g + 3)
    + 16 * Bit(n, 7 * g + 4) + 32 * Bit(n, 7 * g + 5) + 64 * Bit(n, 7 * g + 6)

(* C27: for every number v of the range the host sends exactly 4 bytes,    *)
(* each in 128..255 and so each taken as data; byte 0 holds the lowest 7   *)
(* bits of round(v*1000) + 2^27, byte 3 the highest 7 bits.                *)
C27_EncodedBytes ==
  [][\A v \in CodecValues :
       HostData(chars4_from_double(v)) =>
         /\ Len(chars4_from_double(v)) = 4
         /\ \A i \in 1 .. 4 : chars4_from_double(v)[i] \in 128 .. 255
         /\ ~stop_requested'
         /\ pdata'.count = 4
         /\ \A i \in 1 .. 4 : pdata'.chars[i] = 128 + Group(v + 134217728, i - 1)]_vars

(* The bytes of the highest number of the range are buffered: all 255.     *)
C27_Witness ==
  /\ pdata.count = 4
  /\ pdata.chars = chars4_from_double(134217727)
  /\ pdata.chars = <<255, 255, 255, 255>>
  /\ ~stop_requested

Recovered ==
  /\ blocks = <<>>
  /\ planner_position = position
  /\ st.target = position
  /\ pdata.count = 0

(* C29: protocol_idle() under a stop leaves the recovered state, the stop  *)
(* requested and the actual position as it was; run again in the recovered *)
(* state it changes neither the queue, the planner position, st nor the    *)
(* buffer; and while the stop stays requested and the actual position      *)
(* does not change, no step between two runs leaves the recovered state.   *)
C29_RecoveryIdempotent ==
  [][/\ (stop_requested /\ IdleStep) =>
          (Recovered' /\ stop_requested' /\ position' = position)
     /\ (stop_requested /\ Recovered /\ IdleStep) =>
          /\ blocks' = blocks
          /\ planner_position' = planner_position
          /\ st' = st
          /\ pdata' = pdata
     /\ (stop_requested /\ stop_requested' /\ Recovered /\ position' = position) =>
          Recovered']_vars

(* An invalid marker raised the stop, protocol_idle() recovered from it,   *)
(* the next byte was ignored and protocol_idle() is due again.             *)
C29_Witness ==
  /\ pc = "idle"
  /\ nread = 2
  /\ handled = "ignored"
  /\ stop_status = "STOPERROR_INVALID_MARKER"
  /\ ~resync_due
  /\ Recovered
  /\ st.offset = <<0, 5000, 0>>

(* The byte read is a protocol violation in the state it is read in: an    *)
(* invalid marker, a data byte with 4 buffered, a parameter marker with    *)
(* fewer than 4 buffered, an unknown parameter or an unknown command.      *)
Violation(c) ==
  \/ c < 128 /\ ~(c > 64 /\ c < 91) /\ ~(c > 96 /\ c < 123)
  \/ c > 127 /\ pdata.count = PARAM_MAX_DATA_LENGTH
  \/ c > 96 /\ c < 123 /\ pdata.count # PARAM_MAX_DATA_LENGTH
  \/ c > 96 /\ c < 123 /\ c \notin Parameters
  \/ c > 64 /\ c < 91 /\ c \notin Commands

(* C30: a byte that is a protocol violation, read with no stop requested,  *)
(* leaves the stop requested with one of the protocol's stop codes; a      *)
(* requested stop is ended by the external clear only, and keeps its code  *)
(* until then.                                                             *)
C30_StopRaisedAndKept ==
  [][/\ (LoopStep /\ ~stop_requested /\ Violation(chr')) =>
          /\ stop_requested'
          /\ stop_status' \in {"STOPERROR_INVALID_MARKER", "STOPERROR_INVALID_DATA",
                               "STOPERROR_INVALID_PARAMETER", "STOPERROR_INVALID_COMMAND"}
     /\ (stop_requested /\ ~stop_requested') => ClearStop
     /\ (stop_requested /\ stop_requested') => stop_status' = stop_status]_vars

(* An unknown command raised the stop; it is still requested after the     *)
(* protocol_idle() that followed, an ignored byte and its protocol_idle(). *)
C30_Witness ==
  /\ pc = "read"
  /\ nread = 2
  /\ stop_requested
  /\ stop_status = "STOPERROR_INVALID_COMMAND"
  /\ \E i \in 1 .. Len(out) : out[i].op = "planner_reset_block_buffer"

(* C32 as stated: with no stop requested, a parameter marker read with     *)
(* fewer than 4 data bytes buffered raises STOPERROR_INVALID_PARAMETER.    *)
C32_IncompleteIsInvalidParameter ==
  [][(LoopStep /\ ~stop_requested /\ chr' \in 97 .. 122 /\ pdata.count < PARAM_MAX_DATA_LENGTH) =>
       /\ stop_requested'
       /\ stop_status' = "STOPERROR_INVALID_PARAMETER"]_vars

(* C32 amended: with no stop requested, a parameter marker read with fewer *)
(* than 4 data bytes buffered raises STOPERROR_INVALID_DATA, whether or    *)
(* not the marker is a defined parameter, and the buffer is reset.         *)
C32_IncompleteIsInvalidData ==
  [][(LoopStep /\ ~stop_requested /\ chr' \in 97 .. 122 /\ pdata.count < PARAM_MAX_DATA_LENGTH) =>
       /\ stop_requested'
       /\ stop_status' = "STOPERROR_INVALID_DATA"
       /\ stop_status' # "STOPERROR_INVALID_PARAMETER"
       /\ pdata'.count = 0]_vars

(* The undefined parameter 'a' arrived after two data bytes only: the stop *)
(* is InvalidData.                                                         *)
C32_Witness ==
  /\ pc = "idle"
  /\ handled = "param"
  /\ chr = 97
  /\ pdata.chars[2] = 128 /\ pdata.chars[3] = 0
  /\ pdata.count = 0
  /\ stop_requested
  /\ stop_status = "STOPERROR_INVALID_DATA"

(* C33: pdata.count is in 0..4 in every state; it grows only by one, on a  *)
(* data byte handled with count < 4 and no stop requested, and every such  *)
(* byte makes it grow; it falls only to 0, when a marker has been handled  *)
(* or protocol_idle() runs under a stop; every marker handled (a byte read *)
(* under a stop is discarded, not handled) and every stop recovery leaves  *)
(* it 0.                                                                   *)
C33_BufferCount ==
  /\ [](pdata.count \in 0 .. PARAM_MAX_DATA_LENGTH)
  /\ [][/\ pdata'.count > pdata.count =>
             /\ pdata'.count = pdata.count + 1
             /\ LoopStep /\ chr' > 127 /\ ~stop_requested
             /\ pdata.count < PARAM_MAX_DATA_LENGTH
        /\ (LoopStep /\ chr' > 127 /\ ~stop_requested /\ pdata.count < PARAM_MAX_DATA_LENGTH) =>
             pdata'.count = pdata.count + 1
        /\ pdata'.count < pdata.count =>
             /\ pdata'.count = 0
             /\ \/ LoopStep /\ chr' < 128 /\ ~stop_requested
                \/ pc = "drain" /\ pc' = "idle"
                \/ stop_requested /\ IdleStep
        /\ (LoopStep /\ chr' < 128 /\ ~stop_requested /\ pc' = "idle") => pdata'.count = 0
        /\ (pc = "drain" /\ pc' = "idle") => pdata'.count = 0
        /\ (stop_requested /\ IdleStep) => pdata'.count = 0]_vars

(* Two data bytes were read after the two of the session: 4 are buffered.  *)
C33_Witness ==
  /\ pc = "idle"
  /\ nread = 2
  /\ chr > 127
  /\ handled = "data"
  /\ pdata.count = 4
  /\ pdata.chars[1] = 192 /\ pdata.chars[2] = 128
  /\ ~stop_requested

(* C34 as stated: a data byte handled goes to the next place of the buffer *)
(* and keeps the bytes before it; a marker handled empties the buffer; the *)
(* value a parameter applies is the decode of the 4 bytes buffered; and    *)
(* when a stop ends the buffer is empty, so that the next parameter needs  *)
(* 4 bytes received after it or raises InvalidData.                        *)
C34_FreshBytes ==
  [][/\ (LoopStep /\ ~stop_requested /\ chr' > 127 /\ pdata.count < PARAM_MAX_DATA_LENGTH) =>
          pdata' = [chars |-> [pdata.chars EXCEPT ![pdata.count + 1] = chr'],
                    count |-> pdata.count + 1]
     /\ (LoopStep /\ ~stop_requested /\ chr' < 128 /\ pc' = "idle") => pdata'.count = 0
     /\ (LoopStep /\ ~stop_requested /\ chr' = PARAM_FEEDRATE) =>
          IF pdata.count = PARAM_MAX_DATA_LENGTH
          THEN st'.feedrate = double_from_chars_4(pdata.chars)
          ELSE stop_status' = "STOPERROR_INVALID_DATA"
     /\ (stop_requested /\ ~stop_requested') => pdata.count = 0]_vars

(* C37: after startup (no byte read, the report requested by              *)
(* protocol_init still pending) the reference mode is Absolute and the     *)
(* saved slot, which protocol_init does not assign, holds Relative; the    *)
(* slot keeps Relative through every step that is not the dispatch of a    *)
(* REF_STORE, and a REF_RESTORE dispatched while it holds Relative         *)
(* switches the reference mode to Relative.                                *)
C37_RestoreBeforeStore ==
  /\ []((nread = 0 /\ status_requested) =>
          /\ st.ref_mode = REF_ABSOLUTE
          /\ st.ref_mode_store = REF_RELATIVE
          /\ st.ref_mode_store # st.ref_mode)
  /\ [][/\ (st.ref_mode_store = REF_RELATIVE
              /\ ~(LoopStep /\ ~stop_requested /\ chr' = CMD_REF_STORE)) =>
             st'.ref_mode_store = REF_RELATIVE
        /\ (LoopStep /\ ~stop_requested /\ chr' = CMD_REF_RESTORE
              /\ st.ref_mode_store = REF_RELATIVE) =>
             st'.ref_mode = REF_RELATIVE
        /\ (LoopStep /\ ~stop_requested /\ chr' = CMD_REF_RESTORE /\ nread = 0
              /\ status_requested) =>
             (st.ref_mode = REF_ABSOLUTE /\ st'.ref_mode = REF_RELATIVE)]_vars

(* The first byte after startup is REF_RESTORE: the mode is relative, and *)
(* nothing else of the state has changed.                                  *)
C37_Witness ==
  /\ pc = "idle"
  /\ nread = 1
  /\ chr = CMD_REF_RESTORE
  /\ handled = "cmd"
  /\ st = [protocol_init.st EXCEPT !.ref_mode = REF_RELATIVE]
  /\ status_requested
  /\ protocol_init.st.ref_mode = REF_ABSOLUTE
  /\ ~stop_requested

(* C38: a relative offset setter decodes its value before the drain wait;  *)
(* the wait, with any stop raised and any stop recovery run during it,     *)
(* leaves the value, the parameter and the offsets alone; and the step     *)
(* that ends the wait writes offset[axis] = position[axis] -               *)
(* origin_offset[axis] + value, whether or not a stop is active, and       *)
(* leaves the stop as it is.                                               *)
C38_OffsetAfterStoppedWait ==
  [][/\ (pc = "read" /\ pc' = "drain") =>
          /\ pdata.count = PARAM_MAX_DATA_LENGTH
          /\ val' = double_from_chars_4(pdata.chars)
     /\ (pc = "drain" /\ pc' = "drain") =>
          /\ val' = val
          /\ chr' = chr
          /\ st'.offset = st.offset
     /\ (pc = "drain" /\ pc' = "idle") =>
          /\ st'.offset = [st.offset EXCEPT ![AxisOf(chr)] =
                             position[AxisOf(chr)] - origin_offset[AxisOf(chr)] + val]
          /\ stop_requested' = stop_requested
          /\ stop_status' = stop_status]_vars

(* A line pending, relative mode, 0.250 buffered; OFFSET_X waits; a stop   *)
(* is raised and the recovery runs during the wait (buffer count 0); the   *)
(* wait ends and the offset is written from 0.250 with the stop active.    *)
C38_Witness ==
  /\ pc = "idle"
  /\ chr = PARAM_OFFSET_X
  /\ handled = "param"
  /\ val = 250
  /\ stop_requested
  /\ ~resync_due
  /\ pdata.count = 0
  /\ blocks = <<>>
  /\ st.offset[X_AXIS] = position[X_AXIS] - origin_offset[X_AXIS] + 250
  /\ st.offset[X_AXIS] # 0

(* C35 as stated: whenever the unreported flag is clear                    *)
(* (rx_buffer_underruns_reported is set), the underrun count last written  *)
(* to the serial line is the current counter, with protocol_mark_underrun  *)
(* running at any instant of a telegram.                                   *)
C35_NoUnderrunLost == rx_buffer_underruns_reported => emitted = rx_buffer_underruns

(* The last serial write of the main thread's last step is STATUS_END. *)
Ended == out # <<>> /\ out[Len(out)] = serial_write("STATUS_END")

(* The superstatus fields written by a step. *)
SuperFields(log) ==
  \A f \in {"INFO_VERSION", "INFO_OFFSET_X", "INFO_OFFSET_Y", "INFO_OFFSET_Z", "INFO_FEEDRATE",
            "INFO_INTENSITY", "INFO_DURATION", "INFO_PIXEL_WIDTH"} :
    Len(ParamWrites(log, f)) = 1

(* C36: with the requests arriving at any instant, a status request stays  *)
(* pending until a protocol_idle() call clears it at line 375, before the  *)
(* first write of its telegram; a superstatus request stays pending until  *)
(* a call clears it at line 433, and that call writes the superstatus      *)
(* fields next; a call inside its report does nothing but go on to         *)
(* STATUS_END. With the main thread running, every status request is       *)
(* followed by the start of a telegram, every superstatus request by the   *)
(* superstatus fields, and every telegram started by its STATUS_END.       *)
C36_NoRequestLost ==
  /\ [][/\ (status_requested /\ ~status_requested') =>
             (At("status_clear") /\ frames' = Goto("head") /\ out' = <<>>)
        /\ (superstatus_requested /\ ~superstatus_requested') =>
             (At("superstatus_clear") /\ frames' = Goto("superstatus_fields"))
        /\ (At("head") /\ frames' # frames) => frames' = Goto("underrun_test")
        /\ (At("superstatus_fields") /\ frames' # frames) =>
             (frames' = Goto("end") /\ SuperFields(out'))
        /\ (At("end") /\ frames' # frames) =>
             (frames' = <<>> /\ out' = <<serial_write("STATUS_END")>>)]_vars
  /\ (status_requested ~> At("head"))
  /\ (superstatus_requested ~> At("superstatus_fields"))
  /\ (frames # <<>> ~> Ended)

(* A telegram has just written the superstatus fields it was asked for,    *)
(* and a status request made while it was being written is pending.        *)
C36_Witness ==
  /\ frames = <<"end">>
  /\ SuperFields(out)
  /\ status_requested
  /\ ~superstatus_requested

(* C31 as stated: with protocol_idle() called from the blocked read, the   *)
(* drain wait and the blocked serial writes of its own report, at most one *)
(* call is inside its report at any time: no telegram is started inside    *)
(* an unfinished one and the calls do not nest further.                    *)
C31_NoNestedTelegram == Len(frames) <= 1

=============================================================================
